---- MODULE Spec2Model ----
(***************************************************************************)
(* Per-artifact coordination engine of huldra: the state store             *)
(* (storage/state.py), the compute-lock path of Huldra._run_locally        *)
(* (core/huldra.py) and the alias state write of migrate.py.               *)
(*                                                                         *)
(* The specifications share the definitions of the state store:            *)
(*   Spec       processes running load_or_create / _run_locally on one     *)
(*              directory D, with heartbeat threads, signals and kills;    *)
(*   SpecApi    arbitrary sequences of StateManager calls on D;            *)
(*   SpecPlan   reconcile_in_progress of execution/plan.py;                *)
(*   SpecProbe  reconcile with the probe of adapters/submitit.py;          *)
(*   SpecWatch  the job-id watcher of adapters/submitit.py;                *)
(*   SpecFields the mutations of the lease fields of an attempt;           *)
(*   SpecBeat   StateManager.heartbeat called with any attempt id;         *)
(*   SpecSubmit processes calling Huldra._submit_once on D;                *)
(*   SpecRec    concurrent calls of StateManager.reconcile;                *)
(*   SpecFile   read_state and update_state on a damaged state.json;       *)
(*   SpecLock   update_state with the file-lock protocol of                *)
(*              _acquire_lock_blocking / release_lock step by step;        *)
(*   SpecAlias  migrate() and the reads of a migrated directory T that     *)
(*              resolve, or stop resolving, to its original F.             *)
(*                                                                         *)
(* Spec and SpecApi take each update_state call as one step; whether the   *)
(* state lock makes it one is the subject of SpecLock.  Time is counted in *)
(* ticks, and the durations of the code (lease, timeouts) in ticks too.    *)
(***************************************************************************)
EXTENDS Integers, Sequences, FiniteSets, TLC

\* ------------------------------------------------------------------ bounds

\* number of processes that call load_or_create on D
NumProcs == 2
\* last tick of the wall clock
MaxTime == 2
\* lease_duration_sec, in ticks
Lease == 1
\* attempts that SpecApi may start
MaxAttempts == 2
\* last tick of the wall clock in SpecApi
MaxApiTime == 1
\* _max_wait_time_sec, in ticks
MaxWait == 1
\* timeout_sec of _acquire_lock_blocking, in ticks
LockTimeout == 1
\* stale_after_sec of _acquire_lock_blocking, in ticks
StaleAfter == 1
\* update_state calls that SpecLock may begin
MaxCalls == 3
\* lease_duration_sec of the attempts of SpecPlan, in ticks
PlanLease == 2
\* largest stale_timeout_sec passed to reconcile_in_progress, in ticks
MaxStale == 1
\* number of readers of the migrated directory T in SpecAlias
NumReaders == 2
\* calls the readers of T may begin in SpecAlias
MaxOps == 2
\* times the payload of F may be computed in SpecAlias
MaxGen == 2
\* last tick of the wall clock in SpecAlias
MaxAliasTime == 1

Procs == 1..NumProcs
Hosts == {"h1", "h2"}
\* socket.gethostname() of process p: processes 1 and 2 share a host
HostOf(p) == IF p <= 2 THEN "h1" ELSE "h2"

\* the directory migrated to and the directory migrated from
Dirs == {"T", "F"}
Readers == 1..NumReaders
\* what a directory holds was computed by the object of directory "by", as
\* its gen-th computation
NoContent == [by |-> "none", gen |-> 0]
\* migration.json is absent; overwritten_at is -1 for None
NoRecord == [kind |-> "none", policy |-> "none", overwritten_at |-> -1]
\* a directory before anything is written to it: result and made are
\* state.json, marker is SUCCESS.json, payload is everything outside the
\* internal subdirectory, record is migration.json, events counts the
\* migration_overwrite lines of events.jsonl
EmptyDir ==
    [result |-> "absent", made |-> NoContent, marker |-> FALSE,
     payload |-> NoContent, record |-> NoRecord, events |-> 0]
\* what a call on T returned
NoOut == [op |-> "none", src |-> "none", status |-> "none", made |-> NoContent,
          payload |-> NoContent, ok |-> FALSE]
\* a reader between calls
IdleReader ==
    [pc |-> "idle", n |-> 0, held |-> NoRecord, directory |-> "T",
     alias_active |-> FALSE, always_rerun |-> FALSE, valid |-> TRUE,
     stamp |-> 0, floor |-> 0, out |-> NoOut]

VARIABLES
    state,        \* state.json: [result, attempt]
    marker,       \* SUCCESS.json: 0 when absent, else the attempt_id written in it
    computeLock,  \* .compute.lock: 0 when absent, else the pid in its payload
    now,          \* wall clock
    alive,        \* pids for which os.kill(pid, 0) succeeds
    nextId,       \* the next uuid4 (ids are fresh)
    pc,           \* Spec: position of each process in load_or_create
    attemptId,    \* Spec: attempt_id local of _run_locally, 0 before start
    limited,      \* Spec: whether _max_wait_time_sec is not None
    last,         \* SpecApi: the call made last, [op, changed, unlocked]
    started,      \* SpecApi: numbers of the attempts started, in order
    stateLock,    \* SpecLock: .state.lock, [pid, mtime], pid 0 when absent
    lpc,          \* SpecLock: position of each process in update_state
    deadline,     \* SpecLock: deadline local of _acquire_lock_blocking
    seen,         \* SpecLock: what each process read under the lock
    stored,       \* SpecLock: state.json as the count of updates it contains
    committed,    \* SpecLock: mutations written by update_state calls
    disk,         \* SpecFile: what the file state.json holds (state when valid)
    raised,       \* SpecFile: whether the call made last raised ValueError;
                  \* SpecProbe: whether a reconcile raised
    dirs,         \* SpecAlias: the directories T and F of a migration
    rd,           \* SpecAlias: each reader of T, its position and locals
    submitLock,   \* SpecSubmit: .submit.lock, 0 when absent, else its holder
    jobFile,      \* SpecSubmit: the job handle pickled in D, 0 when absent
    submitted     \* SpecSubmit: jobs handed to the scheduler so far

vars == <<state, marker, computeLock, now, alive, nextId, pc, attemptId, limited,
          last, started, stateLock, lpc, deadline, seen, stored, committed,
          disk, raised, dirs, rd, submitLock, jobFile, submitted>>

progVars == <<pc, attemptId, limited>>
apiVars == <<last, started>>
lockVars == <<stateLock, lpc, deadline, seen, stored, committed>>
fileVars == <<disk, raised>>
aliasVars == <<dirs, rd>>
submitVars == <<submitLock, jobFile, submitted>>

\* ------------------------------------------------------------ state store

TERMINAL_STATUSES == {"success", "failed", "cancelled", "preempted", "crashed"}
ActiveStatuses == {"queued", "running"}

\* `attempt: _StateAttempt | None`: None is the record with status "none";
\* job_id is scheduler["job_id"], 0 when the key is absent
NoAttempt ==
    [id |-> 0, number |-> 0, backend |-> "none", status |-> "none",
     owner_pid |-> 0, owner_host |-> "none", heartbeat_at |-> 0,
     lease_expires_at |-> 0, error |-> "none",
     reason |-> "none", job_id |-> 0]

default_state ==
    [result |-> [status |-> "absent"], attempt |-> NoAttempt]

\* created_at / migrated_at of a result and ended_at of an attempt are
\* write-only timestamps: no decision of the store reads them
coerce_result(current, status) == [status |-> status]

pid_alive(pid) == pid \in alive

lease_expired(attempt, t) == t >= attempt.lease_expires_at

\* _local_attempt_alive that never finds the owner dead
local_attempt_alive_no_probe(attempt, host) ==
    IF attempt.owner_host # host THEN "none"
    ELSE IF attempt.owner_pid = 0 THEN "none"
    ELSE "true"

\* "true" / "false" / "none" for True / False / None
local_attempt_alive(attempt, host) ==
    IF attempt.owner_host # host THEN "none"
    ELSE IF attempt.owner_pid = 0 THEN "none"
    ELSE IF pid_alive(attempt.owner_pid) THEN "true" ELSE "false"

\* _start_attempt with lease_duration_sec = lease
start_attempt_lease(st, attempt_id, backend, status, pid, host, t, lease) ==
    LET prev == st.attempt
        number == IF prev.status # "none" THEN prev.number + 1 ELSE 1
    IN [result |-> coerce_result(st.result, "incomplete"),
        attempt |-> [id |-> attempt_id, number |-> number, backend |-> backend,
                     status |-> status, owner_pid |-> pid, owner_host |-> host,
                     heartbeat_at |-> t, lease_expires_at |-> t + lease,
                     error |-> "none", reason |-> "none", job_id |-> 0]]

start_attempt(st, attempt_id, backend, status, pid, host, t) ==
    start_attempt_lease(st, attempt_id, backend, status, pid, host, t, Lease)

\* heartbeat_ok that accepts a queued attempt as well as a running one
heartbeat_ok_any_active(st, attempt_id) ==
    st.attempt.status \in ActiveStatuses /\ st.attempt.id = attempt_id

heartbeat_ok(st, attempt_id) ==
    st.attempt.status = "running" /\ st.attempt.id = attempt_id

\* heartbeat with lease_duration_sec = lease
heartbeat_lease(st, attempt_id, t, lease) ==
    IF heartbeat_ok(st, attempt_id)
    THEN [st EXCEPT !.attempt.heartbeat_at = t,
                    !.attempt.lease_expires_at = t + lease]
    ELSE st

heartbeat(st, attempt_id, t) == heartbeat_lease(st, attempt_id, t, Lease)

finish_attempt_success(st, attempt_id) ==
    LET attempt == st.attempt
    IN [result |-> coerce_result(st.result, "success"),
        attempt |-> IF attempt.status # "none" /\ attempt.id = attempt_id
                    THEN [attempt EXCEPT !.status = "success",
                                         !.error = "none", !.reason = "none"]
                    ELSE attempt]

finish_attempt_failed(st, attempt_id, error) ==
    LET attempt == st.attempt
    IN [result |-> coerce_result(st.result, "failed"),
        attempt |-> IF attempt.status # "none" /\ attempt.id = attempt_id
                    THEN [attempt EXCEPT !.status = "failed",
                                         !.error = error, !.reason = "none"]
                    ELSE attempt]

\* finish_attempt_preempted that rewrites only an attempt still active
finish_attempt_preempted_active_only(st, attempt_id, error) ==
    LET attempt == st.attempt
    IN [result |-> coerce_result(st.result, "incomplete"),
        attempt |-> IF attempt.status \in ActiveStatuses /\ attempt.id = attempt_id
                    THEN [attempt EXCEPT !.status = "preempted",
                                         !.error = error, !.reason = "none"]
                    ELSE attempt]

finish_attempt_preempted(st, attempt_id, error) ==
    LET attempt == st.attempt
    IN [result |-> coerce_result(st.result, "incomplete"),
        attempt |-> IF attempt.status # "none" /\ attempt.id = attempt_id
                    THEN [attempt EXCEPT !.status = "preempted",
                                         !.error = error, !.reason = "none"]
                    ELSE attempt]

\* finish_attempt_preempted with its optional reason argument given
finish_attempt_preempted_reason(st, attempt_id, error, reason) ==
    LET attempt == st.attempt
    IN [result |-> coerce_result(st.result, "incomplete"),
        attempt |-> IF attempt.status # "none" /\ attempt.id = attempt_id
                    THEN [attempt EXCEPT !.status = "preempted",
                                         !.error = error, !.reason = reason]
                    ELSE attempt]

\* the probe's verdict: terminal_status "none" when the key is missing
NoProbe == [probe |-> FALSE, terminal_status |-> "none"]
Verdicts ==
    {NoProbe} \cup
    [probe : {TRUE}, terminal_status : TERMINAL_STATUSES \cup {"none"}]

\* (terminal_status, reason) chosen by reconcile, <<"none", "none">> for None
reconcile_verdict(attempt, host, t, verdict) ==
    IF attempt.backend = "local"
    THEN IF local_attempt_alive(attempt, host) = "false"
         THEN <<"crashed", "pid_dead">>
         ELSE IF lease_expired(attempt, t)
              THEN <<"crashed", "lease_expired">>
              ELSE <<"none", "none">>
    ELSE IF attempt.backend = "submitit"
    THEN IF verdict.probe /\ verdict.terminal_status \in TERMINAL_STATUSES
         THEN <<verdict.terminal_status,
                IF "reason" \in DOMAIN verdict THEN verdict.reason
                ELSE "scheduler_terminal">>
         ELSE IF lease_expired(attempt, t)
              THEN <<"crashed", "lease_expired">>
              ELSE <<"none", "none">>
    ELSE IF lease_expired(attempt, t)
         THEN <<"crashed", "lease_expired">>
         ELSE <<"none", "none">>

\* reconcile_mutate with the liveness, lease and probe verdict applied before
\* the SUCCESS.json check
reconcile_mutate_verdict_first(st, marker_exists, host, t, verdict) ==
    LET attempt == st.attempt
        chosen == reconcile_verdict(attempt, host, t, verdict)
        terminal_status == IF chosen[1] = "success" THEN "crashed" ELSE chosen[1]
    IN IF attempt.status \notin ActiveStatuses THEN st
       ELSE IF chosen[1] # "none"
       THEN [result |-> coerce_result(st.result,
                            IF terminal_status = "failed" THEN "failed"
                            ELSE "incomplete"),
             attempt |-> [attempt EXCEPT
                            !.status = terminal_status,
                            !.error = IF terminal_status = "failed"
                                      THEN "HuldraComputeError" ELSE "none",
                            !.reason = chosen[2]]]
       ELSE IF marker_exists
       THEN [result |-> coerce_result(st.result, "success"),
             attempt |-> [attempt EXCEPT !.status = "success",
                                         !.error = "none", !.reason = "none"]]
       ELSE st

\* reconcile_mutate, except that an attempt it leaves queued or running has
\* its lease extended by the call
reconcile_mutate_extends_lease(st, marker_exists, host, t, verdict) ==
    LET attempt == st.attempt
        chosen == reconcile_verdict(attempt, host, t, verdict)
        terminal_status == IF chosen[1] = "success" THEN "crashed" ELSE chosen[1]
        reason == chosen[2]
    IN IF attempt.status \notin ActiveStatuses THEN st
       ELSE IF marker_exists
       THEN [result |-> coerce_result(st.result, "success"),
             attempt |-> [attempt EXCEPT !.status = "success",
                                         !.error = "none", !.reason = "none"]]
       ELSE IF chosen[1] = "none"
       THEN [st EXCEPT !.attempt.lease_expires_at = @ + 1]
       ELSE [result |-> coerce_result(st.result,
                            IF terminal_status = "failed" THEN "failed"
                            ELSE "incomplete"),
             attempt |-> [attempt EXCEPT
                            !.status = terminal_status,
                            !.error = IF terminal_status = "failed"
                                      THEN "HuldraComputeError" ELSE "none",
                            !.reason = reason]]

\* the mutate closure of StateManager.reconcile
reconcile_mutate(st, marker_exists, host, t, verdict) ==
    LET attempt == st.attempt
        chosen == reconcile_verdict(attempt, host, t, verdict)
        terminal_status == IF chosen[1] = "success" THEN "crashed" ELSE chosen[1]
        reason == chosen[2]
    IN IF attempt.status \notin ActiveStatuses THEN st
       ELSE IF marker_exists
       THEN [result |-> coerce_result(st.result, "success"),
             attempt |-> [attempt EXCEPT !.status = "success",
                                         !.error = "none", !.reason = "none"]]
       ELSE IF chosen[1] = "none" THEN st
       ELSE [result |-> coerce_result(st.result,
                            IF terminal_status = "failed" THEN "failed"
                            ELSE "incomplete"),
             attempt |-> [attempt EXCEPT
                            !.status = terminal_status,
                            !.error = IF terminal_status = "failed"
                                      THEN "HuldraComputeError" ELSE "none",
                            !.reason = reason]]

\* the test after update_state in reconcile: remove .compute.lock?
reconcile_unlinks(st) ==
    st.attempt.status \in {"crashed", "cancelled", "preempted"}

\* _write_migrated_state of migrate.py
write_migrated_state(st) ==
    [result |-> [status |-> "migrated"], attempt |-> NoAttempt]

\* --------------------------------------------- Spec: load_or_create on D

\* between the successful try_lock and release_lock of _run_locally
ScopePcs ==
    {"start_running", "create", "write_marker", "finish_success",
     "finish_failed", "release_ok", "release_err"}
\* between _start_heartbeat / _setup_signal_handlers and stop_heartbeat
HeartbeatPcs == {"create", "write_marker", "finish_success", "finish_failed"}
\* the handlers of _setup_signal_handlers are never restored
SignalPcs ==
    HeartbeatPcs \cup {"release_ok", "release_err", "created", "raised_error"}
FinalPcs ==
    {"loaded", "created", "waited_success", "raised_failed", "raised_error",
     "raised_timeout", "exit_143", "exit_130", "dead"}

InScope(p) == pc[p] \in ScopePcs

Goto(p, label) == pc' = [pc EXCEPT ![p] = label]

\* StateManager.reconcile up to the return of update_state (lines 688-819);
\* the unlink of line 827 is the next step of the caller
Reconcile(p, from, unlink, next) ==
    /\ pc[p] = from
    /\ state' = reconcile_mutate(state, marker # 0, HostOf(p), now, NoProbe)
    /\ Goto(p, IF reconcile_unlinks(state') THEN unlink ELSE next)
    /\ UNCHANGED <<submitVars, aliasVars, fileVars, apiVars, lockVars, limited, marker, computeLock, now, alive, nextId, attemptId>>

ReconcileUnlink(p, from, next) ==
    /\ pc[p] = from
    /\ computeLock' = 0
    /\ Goto(p, next)
    /\ UNCHANGED <<submitVars, aliasVars, fileVars, apiVars, lockVars, limited, state, marker, now, alive, nextId, attemptId>>

\* load_or_create line 271
LocReconcile(p) == Reconcile(p, "loc_reconcile", "loc_unlink", "loc_read")
LocUnlink(p) == ReconcileUnlink(p, "loc_unlink", "loc_read")

\* load_or_create lines 272-285: a cached success is validated
LocRead(p) ==
    /\ pc[p] = "loc_read"
    /\ \/ Goto(p, "loc_fast")
       \/ state.result.status = "success" /\ Goto(p, "inv_unlink")
    /\ UNCHANGED <<submitVars, aliasVars, fileVars, apiVars, lockVars, limited, state, marker, computeLock, now, alive, nextId, attemptId>>

\* _invalidate_cached_success line 158
InvalidateUnlink(p) ==
    /\ pc[p] = "inv_unlink"
    /\ marker' = 0
    /\ Goto(p, "inv_update")
    /\ UNCHANGED <<submitVars, aliasVars, fileVars, apiVars, lockVars, limited, state, computeLock, now, alive, nextId, attemptId>>

\* _invalidate_cached_success lines 164-167
InvalidateUpdate(p) ==
    /\ pc[p] = "inv_update"
    /\ state' = [state EXCEPT !.result = [status |-> "absent"]]
    /\ Goto(p, "loc_fast")
    /\ UNCHANGED <<submitVars, aliasVars, fileVars, apiVars, lockVars, limited, marker, computeLock, now, alive, nextId, attemptId>>

\* load_or_create lines 317-340
LocFast(p) ==
    /\ pc[p] = "loc_fast"
    /\ Goto(p, IF state.result.status = "success" THEN "loaded" ELSE "try_lock")
    /\ UNCHANGED <<submitVars, aliasVars, fileVars, apiVars, lockVars, limited, state, marker, computeLock, now, alive, nextId, attemptId>>

\* StateManager.try_lock on .compute.lock, _run_locally line 660
TryLock(p) ==
    /\ pc[p] = "try_lock"
    /\ IF computeLock = 0
       THEN computeLock' = p /\ Goto(p, "start_running")
       ELSE computeLock' = computeLock /\ Goto(p, "wait_reconcile")
    /\ UNCHANGED <<submitVars, aliasVars, fileVars, apiVars, lockVars, limited, state, marker, now, alive, nextId, attemptId>>

\* _check_timeout: every caller entered load_or_create at tick 0
check_timeout(t) == limited /\ t > MaxWait

\* the message of HuldraWaitTimeout, lines 403-405, as the pieces of its
\* f-string: literal text and the one interpolated field
timeout_message ==
    <<"Huldra operation timed out after ", "{self._max_wait_time_sec}",
      " seconds.">>

\* _run_locally line 666
WaitTimeout(p) ==
    /\ pc[p] = "wait_reconcile"
    /\ check_timeout(now)
    /\ Goto(p, "raised_timeout")
    /\ UNCHANGED <<submitVars, aliasVars, fileVars, apiVars, lockVars, limited, state, marker, computeLock, now, alive, nextId, attemptId>>

\* _run_locally line 667
WaitReconcile(p) ==
    /\ ~check_timeout(now)
    /\ Reconcile(p, "wait_reconcile", "wait_unlink", "wait_read")
WaitUnlink(p) == ReconcileUnlink(p, "wait_unlink", "wait_read")

\* _run_locally lines 668-688
WaitRead(p) ==
    /\ pc[p] = "wait_read"
    /\ Goto(p, IF state.result.status = "success" THEN "waited_success"
               ELSE IF state.result.status = "failed" THEN "raised_failed"
               ELSE IF state.attempt.status \in {"cancelled", "preempted", "crashed"}
                    THEN "try_lock"
               ELSE "wait_reconcile")
    /\ UNCHANGED <<submitVars, aliasVars, fileVars, apiVars, lockVars, limited, state, marker, computeLock, now, alive, nextId, attemptId>>

\* _run_locally lines 707-726
StartRunning(p) ==
    /\ pc[p] = "start_running"
    /\ state' = start_attempt(state, nextId, "local", "running", p, HostOf(p), now)
    /\ attemptId' = [attemptId EXCEPT ![p] = nextId]
    /\ nextId' = nextId + 1
    /\ Goto(p, "create")
    /\ UNCHANGED <<submitVars, aliasVars, fileVars, apiVars, lockVars, limited, marker, computeLock, now, alive>>

\* _run_locally lines 694-705: create_metadata / write_metadata raises, no
\* attempt is started
MetadataFails(p) ==
    /\ pc[p] = "start_running"
    /\ Goto(p, "release_err")
    /\ UNCHANGED <<submitVars, aliasVars, fileVars, apiVars, lockVars, limited, state, marker, computeLock, now, alive, nextId, attemptId>>

\* _run_locally line 736: _create returns or raises
Create(p) ==
    /\ pc[p] = "create"
    /\ \/ Goto(p, "write_marker")
       \/ Goto(p, "finish_failed")
    /\ UNCHANGED <<submitVars, aliasVars, fileVars, apiVars, lockVars, limited, state, marker, computeLock, now, alive, nextId, attemptId>>

\* _run_locally line 743
WriteMarker(p) ==
    /\ pc[p] = "write_marker"
    /\ marker' = attemptId[p]
    /\ Goto(p, "finish_success")
    /\ UNCHANGED <<submitVars, aliasVars, fileVars, apiVars, lockVars, limited, state, computeLock, now, alive, nextId, attemptId>>

\* _run_locally line 744
FinishSuccess(p) ==
    /\ pc[p] = "finish_success"
    /\ state' = finish_attempt_success(state, attemptId[p])
    /\ Goto(p, "release_ok")
    /\ UNCHANGED <<submitVars, aliasVars, fileVars, apiVars, lockVars, limited, marker, computeLock, now, alive, nextId, attemptId>>

\* _run_locally lines 766-775
FinishFailed(p) ==
    /\ pc[p] = "finish_failed"
    /\ state' = finish_attempt_failed(state, attemptId[p], "exception")
    /\ Goto(p, "release_err")
    /\ UNCHANGED <<submitVars, aliasVars, fileVars, apiVars, lockVars, limited, marker, computeLock, now, alive, nextId, attemptId>>

\* release_lock that closes the descriptor and leaves the file
Release_keeps_file(p) ==
    /\ pc[p] \in {"release_ok", "release_err"}
    /\ Goto(p, IF pc[p] = "release_ok" THEN "created" ELSE "raised_error")
    /\ UNCHANGED <<submitVars, aliasVars, fileVars, apiVars, lockVars, limited, state, marker, computeLock, now, alive, nextId, attemptId>>

\* StateManager.release_lock, _run_locally line 779: unlinks the path
Release(p) ==
    /\ pc[p] \in {"release_ok", "release_err"}
    /\ computeLock' = 0
    /\ Goto(p, IF pc[p] = "release_ok" THEN "created" ELSE "raised_error")
    /\ UNCHANGED <<submitVars, aliasVars, fileVars, apiVars, lockVars, limited, state, marker, now, alive, nextId, attemptId>>

\* one tick of the thread of _start_heartbeat
Heartbeat(p) ==
    /\ pc[p] \in HeartbeatPcs
    /\ state' = heartbeat(state, attemptId[p], now)
    /\ UNCHANGED <<submitVars, aliasVars, fileVars, apiVars, lockVars, limited, marker, computeLock, now, alive, nextId, pc, attemptId>>

\* signal numbers of the two handled signals
SIGTERM == 15
SIGINT == 2
Signals == {SIGTERM, SIGINT}

\* the error handle_signal records: type "signal", message f"signal:{signum}"
signal_error(signum) == "signal:" \o ToString(signum)
\* line 830
exit_code(signum) == IF signum = SIGTERM THEN 143 ELSE 130
\* the process is gone with this exit code
ExitPc(code) == "exit_" \o ToString(code)
\* both, tabulated over the handled signals
ErrorOf == [signum \in Signals |-> signal_error(signum)]
ExitOf == [signum \in Signals |-> ExitPc(exit_code(signum))]

\* handle_signal of _setup_signal_handlers: SIGTERM or SIGINT, then os._exit
Signal(p, signum) ==
    /\ pc[p] \in SignalPcs
    /\ attemptId[p] # 0
    /\ state' = finish_attempt_preempted(state, attemptId[p], ErrorOf[signum])
    /\ Goto(p, ExitOf[signum])
    /\ alive' = alive \ {p}
    /\ UNCHANGED <<submitVars, aliasVars, fileVars, apiVars, lockVars, limited, marker, computeLock, now, nextId, attemptId>>

\* SIGKILL: the process stops where it is, its files stay
Kill(p) ==
    /\ pc[p] \notin FinalPcs
    /\ Goto(p, "dead")
    /\ alive' = alive \ {p}
    /\ UNCHANGED <<submitVars, aliasVars, fileVars, apiVars, lockVars, limited, state, marker, computeLock, now, nextId, attemptId>>

Tick ==
    /\ now < MaxTime
    /\ now' = now + 1
    /\ UNCHANGED <<submitVars, aliasVars, fileVars, apiVars, lockVars, limited, state, marker, computeLock, alive, nextId, pc, attemptId>>

InitShared ==
    /\ state = default_state
    /\ marker = 0
    /\ computeLock = 0
    /\ now = 0
    /\ nextId = 1

\* the variables of the other specifications stay as they start
InitIdleProg ==
    /\ pc = [p \in Procs |-> "off"]
    /\ attemptId = [p \in Procs |-> 0]
    /\ limited = TRUE
InitIdleApi ==
    /\ last = [op |-> "none", changed |-> FALSE, unlocked |-> FALSE]
    /\ started = <<>>
\* state.json does not exist yet
InitIdleFile ==
    /\ disk = "missing"
    /\ raised = FALSE
\* nothing was submitted for D
InitIdleSubmit ==
    /\ submitLock = 0
    /\ jobFile = 0
    /\ submitted = 0
\* no directory is migrated and nothing reads through one
InitIdleAlias ==
    /\ dirs = <<>>
    /\ rd = <<>>
InitIdleLock ==
    /\ stateLock = [pid |-> 0, mtime |-> 0]
    /\ lpc = [p \in Procs |-> "off"]
    /\ deadline = [p \in Procs |-> 0]
    /\ seen = [p \in Procs |-> 0]
    /\ stored = 0
    /\ committed = 0

Init ==
    /\ InitShared
    /\ alive = Procs
    /\ pc = [p \in Procs |-> "loc_reconcile"]
    /\ attemptId = [p \in Procs |-> 0]
    /\ limited \in BOOLEAN
    /\ InitIdleApi
    /\ InitIdleFile
    /\ InitIdleSubmit
    /\ InitIdleAlias
    /\ InitIdleLock

Next ==
    \/ \E p \in Procs : LocReconcile(p)
    \/ \E p \in Procs : LocUnlink(p)
    \/ \E p \in Procs : LocRead(p)
    \/ \E p \in Procs : InvalidateUnlink(p)
    \/ \E p \in Procs : InvalidateUpdate(p)
    \/ \E p \in Procs : LocFast(p)
    \/ \E p \in Procs : TryLock(p)
    \/ \E p \in Procs : WaitTimeout(p)
    \/ \E p \in Procs : WaitReconcile(p)
    \/ \E p \in Procs : WaitUnlink(p)
    \/ \E p \in Procs : WaitRead(p)
    \/ \E p \in Procs : MetadataFails(p)
    \/ \E p \in Procs : StartRunning(p)
    \/ \E p \in Procs : Create(p)
    \/ \E p \in Procs : WriteMarker(p)
    \/ \E p \in Procs : FinishSuccess(p)
    \/ \E p \in Procs : FinishFailed(p)
    \/ \E p \in Procs : Release(p)
    \/ \E p \in Procs : Heartbeat(p)
    \/ \E p \in Procs, signum \in Signals : Signal(p, signum)
    \/ \E p \in Procs : Kill(p)
    \/ Tick

Spec == Init /\ [][Next]_vars

\* the steps of process p's own control flow: a process that is not killed
\* keeps running, and the clock keeps ticking up to MaxTime
Step(p) ==
    \/ LocReconcile(p) \/ LocUnlink(p) \/ LocRead(p)
    \/ InvalidateUnlink(p) \/ InvalidateUpdate(p) \/ LocFast(p)
    \/ TryLock(p) \/ WaitTimeout(p) \/ WaitReconcile(p) \/ WaitUnlink(p)
    \/ WaitRead(p) \/ MetadataFails(p) \/ StartRunning(p) \/ Create(p)
    \/ WriteMarker(p) \/ FinishSuccess(p) \/ FinishFailed(p) \/ Release(p)

SpecFair ==
    /\ Init
    /\ [][Next]_vars
    /\ WF_vars(Tick)
    /\ \A p \in Procs : WF_vars(Step(p))

\* ------------------------------------- SpecApi: StateManager calls on D

Backends == {"local", "submitit"}
\* owners a caller may pass: pid 1 on this host, pid 2 on another host
Owners == {[pid |-> 1, host |-> "h1"], [pid |-> 2, host |-> "h2"]}
\* attempt ids a caller may pass: those returned so far, and 0, an id no
\* attempt ever had
Ids == 0..MaxAttempts
Issued(id) == id < nextId
\* socket.gethostname() of the caller
ThisHost == "h1"

\* the call, whether it changed state.json and whether it removed an
\* existing .compute.lock
Called(op) ==
    last' = [op |-> op, changed |-> state' # state,
             unlocked |-> computeLock # 0 /\ computeLock' = 0]

\* start_attempt_queued / start_attempt_running
ApiStart(status, backend, owner) ==
    /\ nextId <= MaxAttempts
    /\ state' = start_attempt(state, nextId, backend, status, owner.pid,
                              owner.host, now)
    /\ nextId' = nextId + 1
    /\ started' = Append(started, state'.attempt.number)
    /\ UNCHANGED <<submitVars, aliasVars, fileVars, progVars, lockVars, marker, computeLock, now, alive>>
    /\ Called("start")

ApiHeartbeat(id) ==
    /\ Issued(id)
    /\ state' = heartbeat(state, id, now)
    /\ UNCHANGED <<submitVars, aliasVars, fileVars, progVars, lockVars, marker, computeLock, now, alive, nextId,
                   started>>
    /\ Called(IF heartbeat_ok(state, id) THEN "heartbeat_true"
              ELSE "heartbeat_false")

ApiFinishSuccess(id) ==
    /\ Issued(id)
    /\ state' = finish_attempt_success(state, id)
    /\ UNCHANGED <<submitVars, aliasVars, fileVars, progVars, lockVars, marker, computeLock, now, alive, nextId,
                   started>>
    /\ Called("finish_success")

ApiFinishFailed(id) ==
    /\ Issued(id)
    /\ state' = finish_attempt_failed(state, id, "exception")
    /\ UNCHANGED <<submitVars, aliasVars, fileVars, progVars, lockVars, marker, computeLock, now, alive, nextId,
                   started>>
    /\ Called("finish_failed")

ApiFinishPreempted(id) ==
    /\ Issued(id)
    /\ state' = finish_attempt_preempted(state, id, "signal")
    /\ UNCHANGED <<submitVars, aliasVars, fileVars, progVars, lockVars, marker, computeLock, now, alive, nextId,
                   started>>
    /\ Called("finish_preempted")

\* write_success_marker
ApiWriteMarker(id) ==
    /\ id # 0
    /\ id = state.attempt.id
    /\ marker' = id
    /\ UNCHANGED <<submitVars, aliasVars, fileVars, progVars, lockVars, state, computeLock, now, alive, nextId,
                   started>>
    /\ Called("write_success_marker")

\* StateManager.reconcile, lines 672-828
ApiReconcile(verdict) ==
    /\ state' = reconcile_mutate(state, marker # 0, ThisHost, now, verdict)
    /\ computeLock' = IF reconcile_unlinks(state') THEN 0 ELSE computeLock
    /\ UNCHANGED <<submitVars, aliasVars, fileVars, progVars, lockVars, marker, now, alive, nextId, started>>
    /\ Called("reconcile")

\* Huldra._invalidate_cached_success, lines 145-170
ApiInvalidate ==
    /\ state.result.status = "success"
    /\ marker' = 0
    /\ state' = [state EXCEPT !.result = [status |-> "absent"]]
    /\ UNCHANGED <<submitVars, aliasVars, fileVars, progVars, lockVars, computeLock, now, alive, nextId, started>>
    /\ Called("invalidate")

\* migrate(..., policy="alias") onto D: _write_migrated_state
ApiMigrateAlias ==
    /\ state' = write_migrated_state(state)
    /\ UNCHANGED <<submitVars, aliasVars, fileVars, progVars, lockVars, marker, computeLock, now, alive, nextId,
                   started>>
    /\ Called("migrate")

\* try_lock / release_lock on .compute.lock by the process with pid 1
ApiTryLock ==
    /\ computeLock = 0
    /\ computeLock' = 1
    /\ UNCHANGED <<submitVars, aliasVars, fileVars, progVars, lockVars, state, marker, now, alive, nextId, started>>
    /\ Called("try_lock")

ApiReleaseLock ==
    /\ computeLock # 0
    /\ computeLock' = 0
    /\ UNCHANGED <<submitVars, aliasVars, fileVars, progVars, lockVars, state, marker, now, alive, nextId, started>>
    /\ Called("release_lock")

\* the owner process with this pid on this host ends
ApiExit(pid) ==
    /\ pid \in alive
    /\ \E o \in Owners : o.pid = pid /\ o.host = ThisHost
    /\ alive' = alive \ {pid}
    /\ UNCHANGED <<submitVars, aliasVars, fileVars, progVars, lockVars, state, marker, computeLock, now, nextId,
                   started>>
    /\ Called("exit")

ApiTick ==
    /\ now < MaxApiTime
    /\ now' = now + 1
    /\ UNCHANGED <<submitVars, aliasVars, fileVars, progVars, lockVars, state, marker, computeLock, alive, nextId,
                   started>>
    /\ Called("tick")

InitApi ==
    /\ InitShared
    /\ alive = {o.pid : o \in Owners}
    /\ InitIdleProg
    /\ InitIdleApi
    /\ InitIdleFile
    /\ InitIdleSubmit
    /\ InitIdleAlias
    /\ InitIdleLock

NextApi ==
    \/ \E status \in ActiveStatuses, backend \in Backends, owner \in Owners :
          ApiStart(status, backend, owner)
    \/ \E id \in Ids : ApiHeartbeat(id)
    \/ \E id \in Ids : ApiFinishSuccess(id)
    \/ \E id \in Ids : ApiFinishFailed(id)
    \/ \E id \in Ids : ApiFinishPreempted(id)
    \/ \E id \in Ids : ApiWriteMarker(id)
    \/ \E verdict \in Verdicts : ApiReconcile(verdict)
    \/ ApiInvalidate
    \/ ApiMigrateAlias
    \/ ApiTryLock
    \/ ApiReleaseLock
    \/ \E pid \in alive : ApiExit(pid)
    \/ ApiTick

SpecApi == InitApi /\ [][NextApi]_vars

\* --------------------- SpecPlan: execution/plan.py reconcile_in_progress

\* _attempt_age_sec: the age of heartbeat_at (of started_at, which equals it,
\* for a queued attempt)
attempt_age_sec(attempt, t) == t - attempt.heartbeat_at

\* one node of reconcile_in_progress, lines 189-237: the state written, or
\* the state left when the RuntimeError of line 215 is raised
reconcile_in_progress(st, marker_exists, host, t, stale_timeout, retry_failed) ==
    LET reconciled == reconcile_mutate(st, marker_exists, host, t, NoProbe)
        attempt == reconciled.attempt
    IN IF attempt.status \notin ActiveStatuses THEN reconciled
       ELSE IF stale_timeout <= 0 THEN reconciled
       ELSE IF attempt_age_sec(attempt, t) < stale_timeout THEN reconciled
       ELSE IF ~retry_failed THEN reconciled
       ELSE finish_attempt_preempted_reason(reconciled, attempt.id,
                                            "StaleHeartbeat", "stale_timeout")

PlanStart(status, backend, owner) ==
    /\ nextId <= MaxAttempts
    /\ state' = start_attempt_lease(state, nextId, backend, status, owner.pid,
                                    owner.host, now, PlanLease)
    /\ nextId' = nextId + 1
    /\ started' = Append(started, state'.attempt.number)
    /\ UNCHANGED <<submitVars, aliasVars, fileVars, progVars, lockVars, marker, computeLock, now, alive>>
    /\ Called("start")

PlanHeartbeat ==
    /\ state.attempt.status = "running"
    /\ state' = heartbeat_lease(state, state.attempt.id, now, PlanLease)
    /\ UNCHANGED <<submitVars, aliasVars, fileVars, progVars, lockVars, marker, computeLock, now, alive, nextId,
                   started>>
    /\ Called("heartbeat_true")

\* a node whose status in the plan is IN_PROGRESS
PlanReconcile(stale_timeout, retry_failed) ==
    /\ state.attempt.status \in ActiveStatuses
    /\ state' = reconcile_in_progress(state, marker # 0, ThisHost, now,
                                      stale_timeout, retry_failed)
    /\ computeLock' =
          IF reconcile_unlinks(reconcile_mutate(state, marker # 0, ThisHost,
                                                now, NoProbe))
          THEN 0 ELSE computeLock
    /\ UNCHANGED <<submitVars, aliasVars, fileVars, progVars, lockVars, marker, now, alive, nextId, started>>
    /\ Called("reconcile_in_progress")

PlanExit(pid) ==
    /\ pid \in alive
    /\ alive' = alive \ {pid}
    /\ UNCHANGED <<submitVars, aliasVars, fileVars, progVars, lockVars, state, marker, computeLock, now, nextId,
                   started>>
    /\ Called("exit")

PlanTick ==
    /\ now < MaxTime
    /\ now' = now + 1
    /\ UNCHANGED <<submitVars, aliasVars, fileVars, progVars, lockVars, state, marker, computeLock, alive, nextId,
                   started>>
    /\ Called("tick")

NextPlan ==
    \/ \E status \in ActiveStatuses, backend \in Backends, owner \in Owners :
          PlanStart(status, backend, owner)
    \/ PlanHeartbeat
    \/ \E stale_timeout \in 0..MaxStale, retry_failed \in BOOLEAN :
          PlanReconcile(stale_timeout, retry_failed)
    \/ \E pid \in {1, 2} : PlanExit(pid)
    \/ PlanTick

SpecPlan == InitApi /\ [][NextPlan]_vars

\* ------------- SpecProbe: reconcile with the probe of adapters/submitit.py

\* what job.state() can return ("none" for None); states arrive in either case
SchedulerStates ==
    {"none", "RUNNING", "PENDING", "COMPLETED", "PREEMPTED", "TIMEOUT",
     "NODE_FAIL", "CANCELLED", "cancelled", "FAILED", "BOOT_FAIL"}

\* str.upper on the states above
upper(s) == IF s = "cancelled" THEN "CANCELLED" ELSE s

\* `sub in s` for the substrings classify_scheduler_state looks for
contains(s, sub) ==
    \/ sub = "COMPLETE" /\ s = "COMPLETED"
    \/ sub = "FAIL" /\ s \in {"FAILED", "NODE_FAIL", "BOOT_FAIL"}

\* SubmititAdapter.classify_scheduler_state, "none" for None
classify_scheduler_state(scheduler_state, cancelled_is_preempted) ==
    LET s == upper(scheduler_state)
    IN IF scheduler_state = "none" THEN "none"
       ELSE IF contains(s, "COMPLETE") THEN "success"
       ELSE IF s \in {"PREEMPTED", "TIMEOUT", "NODE_FAIL", "REQUEUED",
                      "REQUEUE_HOLD"}
            THEN "preempted"
       ELSE IF s = "CANCELLED"
            THEN IF cancelled_is_preempted THEN "preempted" ELSE "failed"
       ELSE IF contains(s, "FAIL") THEN "failed"
       ELSE "none"

\* SubmititAdapter.probe for a job handle that loads: the verdict dict
probe(scheduler_state, done, cancelled_is_preempted) ==
    LET classified ==
            classify_scheduler_state(scheduler_state, cancelled_is_preempted)
    IN IF classified = "none"
       THEN IF done
            THEN [probe |-> TRUE, terminal_status |-> "crashed",
                  reason |-> "job_done_unknown_state"]
            ELSE [probe |-> TRUE, terminal_status |-> "none"]
       ELSE IF classified = "success"
       THEN [probe |-> TRUE, terminal_status |-> "crashed",
             reason |-> "scheduler_completed_no_success_marker"]
       ELSE [probe |-> TRUE, terminal_status |-> classified,
             reason |-> "scheduler:" \o scheduler_state]

\* the name under which a probing reconcile is recorded in last
ProbeOp(scheduler_state, cancelled_is_preempted) ==
    IF upper(scheduler_state) = "CANCELLED"
    THEN IF cancelled_is_preempted THEN "reconcile_cancelled_as_preempted"
         ELSE "reconcile_cancelled"
    ELSE "reconcile_probe"

ProbeStart(status, backend, owner) ==
    /\ nextId <= MaxAttempts
    /\ state.attempt.status \notin ActiveStatuses
    /\ state' = start_attempt(state, nextId, backend, status, owner.pid,
                              owner.host, now)
    /\ nextId' = nextId + 1
    /\ started' = Append(started, state'.attempt.number)
    /\ UNCHANGED <<submitVars, aliasVars, fileVars, progVars, lockVars, marker, computeLock, now, alive>>
    /\ Called("start")

\* Huldra._reconcile with an adapter, lines 807-810
ProbeReconcile(scheduler_state, done, cancelled_is_preempted) ==
    /\ state' = reconcile_mutate(state, marker # 0, ThisHost, now,
                     probe(scheduler_state, done, cancelled_is_preempted))
    /\ computeLock' = IF reconcile_unlinks(state') THEN 0 ELSE computeLock
    /\ UNCHANGED <<submitVars, aliasVars, fileVars, progVars, lockVars, marker, now, alive, nextId, started>>
    /\ Called(ProbeOp(scheduler_state, cancelled_is_preempted))

\* Huldra._reconcile with an adapter whose probe raises: job.done() raises in
\* is_done, nothing between there and the caller of reconcile catches it, so
\* update_state writes nothing and reconcile removes no lock
ProbeRaises(scheduler_state, cancelled_is_preempted) ==
    /\ state.attempt.status \in ActiveStatuses
    /\ state.attempt.backend = "submitit"
    /\ marker = 0
    /\ classify_scheduler_state(scheduler_state, cancelled_is_preempted)
          = "none"
    /\ raised' = TRUE
    /\ UNCHANGED <<submitVars, aliasVars, disk, progVars, lockVars, state, marker,
                   computeLock, now, alive, nextId, started>>
    /\ Called("reconcile_probe_raises")

\* the worker takes .compute.lock, _worker_entry
ProbeTryLock ==
    /\ computeLock = 0
    /\ state.attempt.status \in ActiveStatuses
    /\ computeLock' = state.attempt.owner_pid
    /\ UNCHANGED <<submitVars, aliasVars, fileVars, progVars, lockVars, state, marker, now, alive, nextId,
                   started>>
    /\ Called("try_lock")

ProbeTick ==
    /\ now < MaxTime
    /\ now' = now + 1
    /\ UNCHANGED <<submitVars, aliasVars, fileVars, progVars, lockVars, state, marker, computeLock,
                   alive, nextId, started>>
    /\ Called("tick")

NextProbe ==
    \/ \E status \in ActiveStatuses, backend \in Backends, owner \in Owners :
          ProbeStart(status, backend, owner)
    \/ \E scheduler_state \in SchedulerStates, done \in BOOLEAN,
          cancelled_is_preempted \in BOOLEAN :
          ProbeReconcile(scheduler_state, done, cancelled_is_preempted)
    \/ \E scheduler_state \in SchedulerStates,
          cancelled_is_preempted \in BOOLEAN :
          ProbeRaises(scheduler_state, cancelled_is_preempted)
    \/ ProbeTryLock
    \/ ProbeTick

SpecProbe == InitApi /\ [][NextProbe]_vars

\* ------------- SpecWatch: watch_job_id of adapters/submitit.py on D

\* get_job_id(job) of the job watcher p was given, once the scheduler
\* reports it
JobId(p) == p

\* the mutate of watcher(): scheduler["job_id"] of the attempt attempt_id
set_job_id(st, attempt_id, job_id) ==
    IF st.attempt.status = "none" \/ st.attempt.id # attempt_id
    THEN st
    ELSE [st EXCEPT !.attempt.job_id = job_id]

\* start_attempt_queued / start_attempt_running with backend submitit
WatchStart(status, owner) ==
    /\ nextId <= MaxAttempts
    /\ state' = start_attempt(state, nextId, "submitit", status, owner.pid,
                              owner.host, now)
    /\ nextId' = nextId + 1
    /\ started' = Append(started, state'.attempt.number)
    /\ UNCHANGED <<submitVars, aliasVars, fileVars, progVars, lockVars, marker, computeLock, now, alive>>
    /\ Called("start")

\* _submit_once: watch_job_id(job, directory, attempt_id) after the queued
\* attempt was started
WatchJobId(p) ==
    /\ pc[p] = "off"
    /\ state.attempt.status = "queued"
    /\ pc' = [pc EXCEPT ![p] = "watch"]
    /\ attemptId' = [attemptId EXCEPT ![p] = state.attempt.id]
    /\ UNCHANGED <<submitVars, aliasVars, fileVars, lockVars, limited, state, marker, computeLock, now,
                   alive, nextId, started>>
    /\ Called("watch_job_id")

\* watcher(): get_job_id(job) returns the id; update_state(directory, mutate)
WatcherFound(p) ==
    /\ pc[p] = "watch"
    /\ state' = set_job_id(state, attemptId[p], JobId(p))
    /\ pc' = [pc EXCEPT ![p] = "found"]
    /\ UNCHANGED <<submitVars, aliasVars, fileVars, lockVars, attemptId, limited, marker, computeLock,
                   now, alive, nextId, started>>
    /\ Called("job_id")

\* watcher(): no id yet and is_done(job)
WatcherDone(p) ==
    /\ pc[p] = "watch"
    /\ pc' = [pc EXCEPT ![p] = "done"]
    /\ UNCHANGED <<submitVars, aliasVars, fileVars, lockVars, attemptId, limited, state, marker,
                   computeLock, now, alive, nextId, started>>
    /\ Called("job_done")

WatchTick ==
    /\ now < MaxApiTime
    /\ now' = now + 1
    /\ UNCHANGED <<submitVars, aliasVars, fileVars, progVars, lockVars, state, marker, computeLock,
                   alive, nextId, started>>
    /\ Called("tick")

NextWatch ==
    \/ \E status \in ActiveStatuses, owner \in Owners : WatchStart(status, owner)
    \/ \E p \in Procs : WatchJobId(p)
    \/ \E p \in Procs : WatcherFound(p)
    \/ \E p \in Procs : WatcherDone(p)
    \/ WatchTick

SpecWatch == InitApi /\ [][NextWatch]_vars

\* ------------- SpecFields: the mutations of the lease fields of the attempt

\* keys a caller may pass in fields: "note" is not an attribute of an attempt
FieldKeys == {"scheduler", "heartbeat_at", "lease_expires_at", "note"}
\* values a caller may pass: a job id for scheduler, a time otherwise
FieldValues == 0..(MaxApiTime + Lease)

\* the mutate of set_attempt_fields with fields = {key: value}
set_attempt_fields(st, attempt_id, key, value) ==
    IF st.attempt.status = "none" \/ st.attempt.id # attempt_id
    THEN st
    ELSE IF key = "scheduler"
         THEN [st EXCEPT !.attempt.job_id = value]
         ELSE IF key \in DOMAIN st.attempt
              THEN [st EXCEPT !.attempt[key] = value]
              ELSE st

FieldsSet(id, key, value) ==
    /\ Issued(id)
    /\ state' = set_attempt_fields(state, id, key, value)
    /\ UNCHANGED <<submitVars, aliasVars, fileVars, progVars, lockVars, marker, computeLock, now, alive, nextId,
                   started>>
    /\ Called("set_attempt_fields")

NextFields ==
    \/ \E status \in ActiveStatuses, backend \in Backends, owner \in Owners :
          ApiStart(status, backend, owner)
    \/ \E id \in Ids : ApiHeartbeat(id)
    \/ \E id \in Ids, key \in FieldKeys, value \in FieldValues :
          FieldsSet(id, key, value)
    \/ ApiTick

SpecFields == InitApi /\ [][NextFields]_vars

\* ------------- SpecSubmit: processes calling Huldra._submit_once on D

\* the steps of _submit_once leave the other locals and files alone
SubmitFrame ==
    UNCHANGED <<aliasVars, fileVars, apiVars, lockVars, limited, marker, now,
                alive>>

SGoto(p, to) == pc' = [pc EXCEPT ![p] = to]

\* what the adapter's probe returns in _submit_once: {} when no job handle
\* is pickled, and the verdict for a job the scheduler still holds otherwise
submit_probe == IF jobFile = 0 THEN NoProbe ELSE probe("PENDING", FALSE, FALSE)

\* line 415: self._reconcile(directory, adapter=adapter)
SubReconcile(p) ==
    /\ pc[p] = "off"
    /\ state' = reconcile_mutate(state, marker # 0, HostOf(p), now,
                                 submit_probe)
    /\ computeLock' = IF reconcile_unlinks(state') THEN 0 ELSE computeLock
    /\ SGoto(p, "sub_read")
    /\ UNCHANGED <<submitVars, nextId, attemptId>>
    /\ SubmitFrame

\* lines 416-424: read_state, and the job of an active submitit attempt is
\* returned when its handle loads
SubRead(p) ==
    /\ pc[p] = "sub_read"
    /\ SGoto(p, IF /\ state.attempt.status \in ActiveStatuses
                   /\ state.attempt.backend = "submitit"
                   /\ jobFile # 0
                THEN "sub_returned_job" ELSE "sub_lock")
    /\ UNCHANGED <<submitVars, state, computeLock, nextId, attemptId>>
    /\ SubmitFrame

\* lines 427-439: try_lock on .submit.lock
SubTryLock(p) ==
    /\ pc[p] = "sub_lock"
    /\ IF submitLock = 0
       THEN submitLock' = p /\ SGoto(p, "sub_meta")
       ELSE submitLock' = submitLock /\ SGoto(p, "sub_wait")
    /\ UNCHANGED <<jobFile, submitted, state, computeLock, nextId, attemptId>>
    /\ SubmitFrame

\* lines 438-439: time.sleep(0.5); return adapter.load_job(directory)
SubWait(p) ==
    /\ pc[p] = "sub_wait"
    /\ SGoto(p, IF jobFile # 0 THEN "sub_returned_job"
                ELSE "sub_returned_none")
    /\ UNCHANGED <<submitVars, state, computeLock, nextId, attemptId>>
    /\ SubmitFrame

\* lines 443-454: the metadata is written and start_attempt_queued called
SubStart(p) ==
    /\ pc[p] = "sub_meta"
    /\ nextId <= NumProcs
    /\ state' = start_attempt(state, nextId, "submitit", "queued", p,
                              HostOf(p), now)
    /\ attemptId' = [attemptId EXCEPT ![p] = nextId]
    /\ nextId' = nextId + 1
    /\ started' = Append(started, state'.attempt.number)
    /\ SGoto(p, "sub_submit")
    /\ UNCHANGED <<submitVars, aliasVars, fileVars, lockVars, last, limited,
                   marker, computeLock, now, alive>>

\* lines 443-446 raise: the except of lines 476-481 sets the result failed
SubMetadataFails(p) ==
    /\ pc[p] = "sub_meta"
    /\ state' = [state EXCEPT !.result = [status |-> "failed"]]
    /\ SGoto(p, "sub_release_err")
    /\ UNCHANGED <<submitVars, computeLock, nextId, attemptId>>
    /\ SubmitFrame

\* line 455: adapter.submit hands a job to the scheduler
SubSubmit(p) ==
    /\ pc[p] = "sub_submit"
    /\ submitted' = submitted + 1
    /\ SGoto(p, "sub_pickle")
    /\ UNCHANGED <<submitLock, jobFile, state, computeLock, nextId, attemptId>>
    /\ SubmitFrame

\* lines 458-466: pickle_job writes the handle (watch_job_id starts the
\* watcher of SpecWatch, which writes scheduler.job_id only)
SubPickle(p) ==
    /\ pc[p] = "sub_pickle"
    /\ jobFile' = submitted
    /\ SGoto(p, "sub_release")
    /\ UNCHANGED <<submitLock, submitted, state, computeLock, nextId,
                   attemptId>>
    /\ SubmitFrame

\* adapter.submit or pickle_job raises: lines 467-475 record the attempt as
\* failed
SubFails(p) ==
    /\ pc[p] \in {"sub_submit", "sub_pickle"}
    /\ state' = finish_attempt_failed(state, attemptId[p], "exception")
    /\ SGoto(p, "sub_release_err")
    /\ UNCHANGED <<submitVars, computeLock, nextId, attemptId>>
    /\ SubmitFrame

\* lines 487-488: release_lock(lock_fd, lock_path), then return or raise
SubRelease(p) ==
    /\ pc[p] \in {"sub_release", "sub_release_err"}
    /\ submitLock' = 0
    /\ SGoto(p, IF pc[p] = "sub_release" THEN "sub_returned_job"
                ELSE "sub_raised")
    /\ UNCHANGED <<jobFile, submitted, state, computeLock, nextId, attemptId>>
    /\ SubmitFrame

NextSubmit ==
    \/ \E p \in Procs : SubReconcile(p)
    \/ \E p \in Procs : SubRead(p)
    \/ \E p \in Procs : SubTryLock(p)
    \/ \E p \in Procs : SubWait(p)
    \/ \E p \in Procs : SubStart(p)
    \/ \E p \in Procs : SubMetadataFails(p)
    \/ \E p \in Procs : SubSubmit(p)
    \/ \E p \in Procs : SubPickle(p)
    \/ \E p \in Procs : SubFails(p)
    \/ \E p \in Procs : SubRelease(p)

SpecSubmit == InitApi /\ [][NextSubmit]_vars

\* ------------- SpecBeat: StateManager.heartbeat called with any attempt id

\* heartbeat(D, attempt_id=id, lease_duration_sec=Lease) called by process p;
\* pc marks the caller of the heartbeat made last and attemptId holds the id
\* it passed
BeatCall(p, id) ==
    /\ state' = heartbeat(state, id, now)
    /\ pc' = [q \in Procs |-> IF q = p THEN "beat" ELSE "off"]
    /\ attemptId' = [q \in Procs |-> IF q = p THEN id ELSE 0]
    /\ UNCHANGED <<submitVars, aliasVars, fileVars, lockVars, limited, marker,
                   computeLock, now, alive, nextId, started>>
    /\ Called(IF heartbeat_ok(state, id) THEN "heartbeat_true"
              ELSE "heartbeat_false")

NextBeat ==
    \/ \E status \in ActiveStatuses, backend \in Backends, owner \in Owners :
          ApiStart(status, backend, owner)
    \/ \E p \in Procs, id \in Ids : BeatCall(p, id)
    \/ \E id \in Ids : ApiFinishSuccess(id)
    \/ \E id \in Ids : ApiFinishFailed(id)
    \/ \E id \in Ids : ApiFinishPreempted(id)
    \/ ApiTick

SpecBeat == InitApi /\ [][NextBeat]_vars

\* ----------------- SpecRec: concurrent calls of StateManager.reconcile on D

\* no call of reconcile has begun: D is still being brought to the state
\* the calls start from
RecIdle == \A p \in Procs : pc[p] = "off"

RecStart(status, backend, owner) ==
    /\ RecIdle
    /\ nextId <= MaxAttempts
    /\ state' = start_attempt(state, nextId, backend, status, owner.pid,
                              owner.host, now)
    /\ nextId' = nextId + 1
    /\ UNCHANGED <<submitVars, aliasVars, fileVars, progVars, apiVars, lockVars, marker, computeLock, now,
                   alive>>

\* finish_attempt_success / _failed / _preempted of the current attempt
RecFinish(outcome) ==
    /\ RecIdle
    /\ state.attempt.status \in ActiveStatuses
    /\ state' = CASE outcome = "success" ->
                       finish_attempt_success(state, state.attempt.id)
                  [] outcome = "failed" ->
                       finish_attempt_failed(state, state.attempt.id, "exception")
                  [] OTHER ->
                       finish_attempt_preempted(state, state.attempt.id, "signal")
    /\ UNCHANGED <<submitVars, aliasVars, fileVars, progVars, apiVars, lockVars, marker, computeLock, now,
                   alive, nextId>>

\* write_success_marker by the worker of the current attempt
RecWriteMarker ==
    /\ RecIdle
    /\ state.attempt.status \in ActiveStatuses
    /\ marker' = state.attempt.id
    /\ UNCHANGED <<submitVars, aliasVars, fileVars, progVars, apiVars, lockVars, state, computeLock, now,
                   alive, nextId>>

\* try_lock on .compute.lock by the process with pid 1
RecTryLock ==
    /\ RecIdle
    /\ computeLock = 0
    /\ computeLock' = 1
    /\ UNCHANGED <<submitVars, aliasVars, fileVars, progVars, apiVars, lockVars, state, marker, now, alive,
                   nextId>>

\* an owner process ends
RecExit(pid) ==
    /\ RecIdle
    /\ pid \in alive
    /\ alive' = alive \ {pid}
    /\ UNCHANGED <<submitVars, aliasVars, fileVars, progVars, apiVars, lockVars, state, marker, computeLock,
                   now, nextId>>

RecTick ==
    /\ RecIdle
    /\ now < MaxApiTime
    /\ now' = now + 1
    /\ UNCHANGED <<submitVars, aliasVars, fileVars, progVars, apiVars, lockVars, state, marker, computeLock,
                   alive, nextId>>

\* reconcile(D) up to the return of update_state, lines 688-819
RecUpdate(p) ==
    /\ pc[p] = "off"
    /\ state' = reconcile_mutate(state, marker # 0, ThisHost, now, NoProbe)
    /\ Goto(p, IF reconcile_unlinks(state') THEN "rec_unlink" ELSE "rec_keep")
    /\ UNCHANGED <<submitVars, aliasVars, fileVars, apiVars, lockVars, attemptId, limited, marker,
                   computeLock, now, alive, nextId>>

\* reconcile(D) after update_state, lines 820-828
RecReturn(p) ==
    /\ pc[p] \in {"rec_unlink", "rec_keep"}
    /\ computeLock' = IF pc[p] = "rec_unlink" THEN 0 ELSE computeLock
    /\ Goto(p, "rec_returned")
    /\ UNCHANGED <<submitVars, aliasVars, fileVars, apiVars, lockVars, attemptId, limited, state, marker,
                   now, alive, nextId>>

NextRec ==
    \/ \E status \in ActiveStatuses, backend \in Backends, owner \in Owners :
          RecStart(status, backend, owner)
    \/ \E outcome \in {"success", "failed", "preempted"} : RecFinish(outcome)
    \/ RecWriteMarker
    \/ RecTryLock
    \/ \E pid \in {1, 2} : RecExit(pid)
    \/ RecTick
    \/ \E p \in Procs : RecUpdate(p)
    \/ \E p \in Procs : RecReturn(p)

SpecRec == InitApi /\ [][NextRec]_vars

\* ------------------- SpecFile: read_state and update_state on a damaged file

\* what state.json can hold besides a valid state: bytes read_text cannot
\* decode, text json.loads rejects, JSON that is no object, another
\* schema_version, an object model_validate rejects
CorruptKinds ==
    {"undecodable", "bad_json", "not_object", "bad_version", "bad_schema"}

\* read_state, lines 225-246: any exception of read_text gives the default
\* state; the later failures raise ValueError naming the path
read_state(content, st) ==
    IF content = "valid" THEN [raises |-> FALSE, value |-> st]
    ELSE IF content \in {"missing", "undecodable"}
         THEN [raises |-> FALSE, value |-> default_state]
    ELSE [raises |-> TRUE, value |-> st]

\* what read_state makes of state.json as it is now
loaded == read_state(disk, state)

\* update_state, lines 331-346: read_state, the mutator (mutated is what it
\* makes of loaded.value), _write_state_unlocked
update_state(mutated) ==
    IF loaded.raises
    THEN /\ raised' = TRUE
         /\ UNCHANGED <<state, disk>>
    ELSE /\ raised' = FALSE
         /\ state' = mutated
         /\ disk' = "valid"

FileRead ==
    /\ raised' = loaded.raises
    /\ UNCHANGED <<submitVars, aliasVars, progVars, lockVars, state, disk, marker, computeLock, now,
                   alive, nextId, started>>
    /\ Called("read_state")

FileStart(status, backend, owner) ==
    /\ nextId <= MaxAttempts
    /\ update_state(start_attempt(loaded.value, nextId, backend, status,
                                  owner.pid, owner.host, now))
    /\ nextId' = nextId + 1
    /\ UNCHANGED <<submitVars, aliasVars, progVars, lockVars, marker, computeLock, now, alive, started>>
    /\ Called("start")

FileHeartbeat(id) ==
    /\ Issued(id)
    /\ update_state(heartbeat(loaded.value, id, now))
    /\ UNCHANGED <<submitVars, aliasVars, progVars, lockVars, marker, computeLock, now, alive, nextId,
                   started>>
    /\ Called("heartbeat")

FileFinishFailed(id) ==
    /\ Issued(id)
    /\ update_state(finish_attempt_failed(loaded.value, id, "exception"))
    /\ UNCHANGED <<submitVars, aliasVars, progVars, lockVars, marker, computeLock, now, alive, nextId,
                   started>>
    /\ Called("finish_failed")

\* StateManager.reconcile: its update_state call, no probe
FileReconcile ==
    /\ update_state(reconcile_mutate(loaded.value, marker # 0, ThisHost, now,
                                     NoProbe))
    /\ UNCHANGED <<submitVars, aliasVars, progVars, lockVars, marker, computeLock, now, alive, nextId,
                   started>>
    /\ Called("reconcile")

\* the file is damaged from outside (a torn write, a disk fault, an edit)
FileDamage(kind) ==
    /\ disk = "valid"
    /\ disk' = kind
    /\ UNCHANGED <<submitVars, aliasVars, progVars, lockVars, state, raised, marker, computeLock, now,
                   alive, nextId, started>>
    /\ Called("damage")

FileTick ==
    /\ now < MaxApiTime
    /\ now' = now + 1
    /\ UNCHANGED <<submitVars, aliasVars, progVars, lockVars, fileVars, state, marker, computeLock,
                   alive, nextId, started>>
    /\ Called("tick")

FileOps == {"read_state", "start", "heartbeat", "finish_failed", "reconcile"}

NextFile ==
    \/ FileRead
    \/ \E status \in ActiveStatuses, backend \in Backends, owner \in Owners :
          FileStart(status, backend, owner)
    \/ \E id \in Ids : FileHeartbeat(id)
    \/ \E id \in Ids : FileFinishFailed(id)
    \/ FileReconcile
    \/ \E kind \in CorruptKinds : FileDamage(kind)
    \/ FileTick

SpecFile == InitApi /\ [][NextFile]_vars

\* ------------------------------ SpecLock: update_state and .state.lock

NoLock == [pid |-> 0, mtime |-> 0]
\* between the return of _acquire_lock_blocking and release_lock
CriticalPcs == {"read", "write", "release"}
InCritical(p) == lpc[p] \in CriticalPcs
LGoto(p, label) == lpc' = [lpc EXCEPT ![p] = label]
Begun == committed + Cardinality({p \in Procs : lpc[p] \notin {"idle", "dead"}})

\* update_state is called: _acquire_lock_blocking line 303
LockCall(p) ==
    /\ lpc[p] = "idle"
    /\ Begun < MaxCalls
    /\ deadline' = [deadline EXCEPT ![p] = now + LockTimeout]
    /\ LGoto(p, "try")
    /\ UNCHANGED <<submitVars, aliasVars, fileVars, progVars, apiVars, state, marker, computeLock, now, alive,
                   nextId, stateLock, seen, stored, committed>>

\* try_lock, line 305: O_CREAT | O_EXCL
LockTry(p) ==
    /\ lpc[p] = "try"
    /\ IF stateLock.pid = 0
       THEN stateLock' = [pid |-> p, mtime |-> now] /\ LGoto(p, "read")
       ELSE stateLock' = stateLock /\ LGoto(p, "inspect")
    /\ UNCHANGED <<submitVars, aliasVars, fileVars, progVars, apiVars, state, marker, computeLock, now, alive,
                   nextId, deadline, seen, stored, committed>>

\* lines 309-319: should_break, from the lock file as it is now
should_break(p) ==
    /\ stateLock.pid # 0
    /\ \/ HostOf(stateLock.pid) = HostOf(p) /\ ~pid_alive(stateLock.pid)
       \/ now - stateLock.mtime > StaleAfter

LockInspect(p) ==
    /\ lpc[p] = "inspect"
    /\ LGoto(p, IF should_break(p) THEN "unlink" ELSE "deadline")
    /\ UNCHANGED <<submitVars, aliasVars, fileVars, progVars, apiVars, state, marker, computeLock, now, alive,
                   nextId, stateLock, deadline, seen, stored, committed>>

\* lines 321-324: unlink(missing_ok=True), then try again
LockBreak(p) ==
    /\ lpc[p] = "unlink"
    /\ stateLock' = NoLock
    /\ LGoto(p, "try")
    /\ UNCHANGED <<submitVars, aliasVars, fileVars, progVars, apiVars, state, marker, computeLock, now, alive,
                   nextId, deadline, seen, stored, committed>>

\* lines 326-328: sleep, or TimeoutError and the finally of update_state,
\* release_lock(None, lock_path), which unlinks the path
LockDeadline(p) ==
    /\ lpc[p] = "deadline"
    /\ IF now >= deadline[p]
       THEN stateLock' = NoLock /\ LGoto(p, "idle")
       ELSE stateLock' = stateLock /\ LGoto(p, "try")
    /\ UNCHANGED <<submitVars, aliasVars, fileVars, progVars, apiVars, state, marker, computeLock, now, alive,
                   nextId, deadline, seen, stored, committed>>

\* update_state line 338: read_state
LockRead(p) ==
    /\ lpc[p] = "read"
    /\ seen' = [seen EXCEPT ![p] = stored]
    /\ LGoto(p, "write")
    /\ UNCHANGED <<submitVars, aliasVars, fileVars, progVars, apiVars, state, marker, computeLock, now, alive,
                   nextId, stateLock, deadline, stored, committed>>

\* update_state lines 339-343: the mutator adds one update, os.replace
LockWrite(p) ==
    /\ lpc[p] = "write"
    /\ stored' = seen[p] + 1
    /\ committed' = committed + 1
    /\ LGoto(p, "release")
    /\ UNCHANGED <<submitVars, aliasVars, fileVars, progVars, apiVars, state, marker, computeLock, now, alive,
                   nextId, stateLock, deadline, seen>>

\* update_state line 346: release_lock closes fd and unlinks the path
LockRelease(p) ==
    /\ lpc[p] = "release"
    /\ stateLock' = NoLock
    /\ LGoto(p, "idle")
    /\ UNCHANGED <<submitVars, aliasVars, fileVars, progVars, apiVars, state, marker, computeLock, now, alive,
                   nextId, deadline, seen, stored, committed>>

\* the process dies where it is; a lock file it created stays
LockKill(p) ==
    /\ lpc[p] \notin {"idle", "dead"}
    /\ alive' = alive \ {p}
    /\ LGoto(p, "dead")
    /\ UNCHANGED <<submitVars, aliasVars, fileVars, progVars, apiVars, state, marker, computeLock, now, nextId,
                   stateLock, deadline, seen, stored, committed>>

LockTick ==
    /\ now < MaxTime
    /\ now' = now + 1
    /\ UNCHANGED <<submitVars, aliasVars, fileVars, progVars, apiVars, state, marker, computeLock, alive, nextId,
                   lockVars>>

InitLock ==
    /\ InitShared
    /\ alive = Procs
    /\ InitIdleProg
    /\ InitIdleApi
    /\ InitIdleFile
    /\ InitIdleSubmit
    /\ InitIdleAlias
    /\ stateLock = NoLock
    /\ lpc = [p \in Procs |-> "idle"]
    /\ deadline = [p \in Procs |-> 0]
    /\ seen = [p \in Procs |-> 0]
    /\ stored = 0
    /\ committed = 0

NextLock ==
    \/ \E p \in Procs : LockCall(p)
    \/ \E p \in Procs : LockTry(p)
    \/ \E p \in Procs : LockInspect(p)
    \/ \E p \in Procs : LockBreak(p)
    \/ \E p \in Procs : LockDeadline(p)
    \/ \E p \in Procs : LockRead(p)
    \/ \E p \in Procs : LockWrite(p)
    \/ \E p \in Procs : LockRelease(p)
    \/ \E p \in Procs : LockKill(p)
    \/ LockTick

SpecLock == InitLock /\ [][NextLock]_vars

\* ------- SpecAlias: the migration overlay (gren/migrate.py, furu/core/furu.py)

\* _alias_record(base_dir): the record of T when its kind is "alias"
alias_record(ds) ==
    IF ds["T"].record.kind = "alias" THEN ds["T"].record ELSE NoRecord

\* _alias_is_active(base_dir, record)
alias_is_active(ds, record) ==
    /\ record.overwritten_at = -1
    /\ ds["T"].result = "migrated"
    /\ ds["F"].result = "success"

\* get_state(): the directory whose state.json is returned
get_state(ds) ==
    LET record == alias_record(ds)
    IN  IF record = NoRecord \/ ~alias_is_active(ds, record) THEN "T" ELSE "F"

\* furu_dir: the directory the payload is read from and written to
furu_dir(ds) ==
    LET migration == alias_record(ds)
    IN  IF migration # NoRecord /\ alias_is_active(ds, migration) THEN "F" ELSE "T"

\* exists(), with valid the value of _validate()
exists(ds, valid) ==
    IF ds[get_state(ds)].result # "success" THEN FALSE ELSE valid

\* _invalidate_cached_success(directory)
invalidate_cached_success(ds, d) ==
    [ds EXCEPT ![d].marker = FALSE, ![d].result = "absent"]

\* the generations of F's success that are over when a call begins
FloorOf(ds) ==
    IF ds["F"].result = "success" THEN ds["F"].made.gen ELSE ds["F"].made.gen + 1

\* the number of the next computation of directory d
NextGen(ds, d) ==
    IF ds[d].made.by = d THEN ds[d].made.gen + 1 ELSE 1

StateOut(ds, op, d) ==
    [op |-> op, src |-> d, status |-> ds[d].result, made |-> ds[d].made,
     payload |-> NoContent, ok |-> ds[d].result = "success"]
LoadOut(ds, d) ==
    [op |-> "load", src |-> d, status |-> "success", made |-> NoContent,
     payload |-> ds[d].payload, ok |-> TRUE]
RaiseOut ==
    [op |-> "raise", src |-> "none", status |-> "none", made |-> NoContent,
     payload |-> NoContent, ok |-> FALSE]

\* the calls begun by the readers in S
RECURSIVE OpsBegun(_)
OpsBegun(S) ==
    IF S = {} THEN 0
    ELSE LET p == CHOOSE q \in S : TRUE IN rd[p].n + OpsBegun(S \ {p})

AtIdle(p) == rd[p].pc = "idle" /\ OpsBegun(Readers) < MaxOps
AGoto(p, label) == rd' = [rd EXCEPT ![p].pc = label]
\* the call of reader p returns out, and its locals are gone
AReturn(p, out) ==
    rd' = [rd EXCEPT ![p] = [IdleReader EXCEPT !.n = rd[p].n, !.out = out]]
\* reader p makes a call that is one read
ARead(p, out) == rd' = [rd EXCEPT ![p].n = @ + 1, ![p].out = out]

otherVars == <<state, marker, computeLock, alive, nextId, progVars, apiVars,
               lockVars, fileVars, submitVars>>

\* migrate(F, T, policy) of gren/migrate.py
Migrate(policy) ==
    /\ dirs["T"].record = NoRecord
    /\ \A p \in Readers : rd[p].pc = "idle"
    /\ LET F == dirs["F"]
           T == dirs["T"]
           record == [kind |-> "alias", policy |-> policy, overwritten_at |-> -1]
           old_record == [kind |-> "migrated", policy |-> policy,
                          overwritten_at |-> -1]
           \* _transfer_payload and _copy_state, or _write_migrated_state
           T1 == IF policy \in {"move", "copy"}
                 THEN [T EXCEPT !.payload = IF F.payload # NoContent
                                            THEN F.payload ELSE @,
                                !.result = F.result, !.made = F.made,
                                !.marker = F.marker \/ @]
                 ELSE [T EXCEPT !.result = "migrated"]
           F1 == IF policy = "move" THEN [F EXCEPT !.payload = NoContent] ELSE F
       IN  dirs' = [dirs EXCEPT
                      !["T"] = [T1 EXCEPT !.record = record],
                      !["F"] = IF policy # "copy"
                               THEN [F1 EXCEPT !.record = old_record] ELSE F1]
    /\ UNCHANGED <<rd, now, otherVars>>

\* the object of F computes its payload
ComputeF ==
    /\ dirs["F"].result \notin {"success", "migrated"}
    /\ NextGen(dirs, "F") <= MaxGen
    /\ LET made == [by |-> "F", gen |-> NextGen(dirs, "F")]
       IN  dirs' = [dirs EXCEPT !["F"].result = "success", !["F"].made = made,
                                !["F"].payload = made, !["F"].marker = TRUE]
    /\ UNCHANGED <<rd, now, otherVars>>

\* the object of F finds its result invalid: _invalidate_cached_success(F)
InvalidateF ==
    /\ dirs["F"].result = "success"
    /\ dirs' = invalidate_cached_success(dirs, "F")
    /\ UNCHANGED <<rd, now, otherVars>>

\* get_state() on T
AliasGetState(p) ==
    /\ AtIdle(p)
    /\ ARead(p, StateOut(dirs, "get_state", get_state(dirs)))
    /\ UNCHANGED <<dirs, now, otherVars>>

\* exists() on T
AliasExists(p, valid) ==
    /\ AtIdle(p)
    /\ ARead(p, [StateOut(dirs, IF valid THEN "exists" ELSE "exists_invalid",
                           get_state(dirs))
                   EXCEPT !.ok = exists(dirs, valid)])
    /\ UNCHANGED <<dirs, now, otherVars>>

\* a read of the payload through T.furu_dir
AliasFuruDir(p) ==
    /\ AtIdle(p)
    /\ ARead(p, [LoadOut(dirs, furu_dir(dirs)) EXCEPT !.op = "furu_dir"])
    /\ UNCHANGED <<dirs, now, otherVars>>

\* load_or_create on T: migration = _alias_record(base_dir)
AliasOpen(p, always_rerun, valid) ==
    /\ AtIdle(p)
    /\ LET migration == alias_record(dirs)
           aliased == migration # NoRecord /\ migration.overwritten_at = -1
       IN  rd' = [rd EXCEPT ![p] =
                    [@ EXCEPT !.pc = IF aliased THEN "target" ELSE "marker",
                              !.n = @ + 1, !.held = migration,
                              !.directory = "T", !.alias_active = FALSE,
                              !.always_rerun = always_rerun, !.valid = valid,
                              !.floor = FloorOf(dirs), !.out = NoOut]]
    /\ UNCHANGED <<dirs, now, otherVars>>

\* target_state = read_state(target_dir), and the choice that follows
AliasTarget(p) ==
    /\ rd[p].pc = "target"
    /\ IF dirs["F"].result = "success"
       THEN rd' = [rd EXCEPT ![p].alias_active = ~rd[p].always_rerun,
                             ![p].directory =
                                 IF rd[p].always_rerun THEN "T" ELSE "F",
                             ![p].pc = IF rd[p].always_rerun
                                       THEN "detach" ELSE "marker"]
       ELSE AGoto(p, "detach")
    /\ UNCHANGED <<dirs, now, otherVars>>

\* _maybe_detach_alias: the record held is written to T with overwritten_at
AliasDetach(p) ==
    /\ rd[p].pc = "detach"
    /\ IF rd[p].held.overwritten_at # -1
       THEN /\ AGoto(p, "marker")
            /\ UNCHANGED dirs
       ELSE /\ rd' = [rd EXCEPT ![p].stamp = now, ![p].pc = "detach_target"]
            /\ dirs' = [dirs EXCEPT !["T"].record =
                          [rd[p].held EXCEPT !.overwritten_at = now]]
    /\ UNCHANGED <<now, otherVars>>

\* _maybe_detach_alias: the record of F, then one event in each directory
AliasDetachTarget(p) ==
    /\ rd[p].pc = "detach_target"
    /\ dirs' = [dirs EXCEPT
                  !["F"].record = IF @ # NoRecord
                                  THEN [@ EXCEPT !.overwritten_at = rd[p].stamp]
                                  ELSE @,
                  !["F"].events = @ + 1,
                  !["T"].events = @ + 1]
    /\ AGoto(p, "marker")
    /\ UNCHANGED <<now, otherVars>>

\* the check of SUCCESS.json in directory
AliasMarker(p) ==
    /\ rd[p].pc = "marker"
    /\ LET d == rd[p].directory
       IN  IF ~dirs[d].marker
           THEN AGoto(p, "read") /\ UNCHANGED dirs
           ELSE IF rd[p].always_rerun \/ ~rd[p].valid
                     \/ dirs[furu_dir(dirs)].payload = NoContent
                THEN /\ dirs' = invalidate_cached_success(dirs, d)
                     /\ AGoto(p, "read")
                ELSE /\ AReturn(p, LoadOut(dirs, furu_dir(dirs)))
                     /\ UNCHANGED dirs
    /\ UNCHANGED <<now, otherVars>>

\* state0 = read_state(directory) and the second validation
AliasRead(p) ==
    /\ rd[p].pc = "read"
    /\ LET d == rd[p].directory
       IN  dirs' = IF dirs[d].result = "success"
                      /\ (rd[p].always_rerun \/ ~rd[p].valid)
                   THEN invalidate_cached_success(dirs, d)
                   ELSE dirs
    /\ AGoto(p, "fast")
    /\ UNCHANGED <<now, otherVars>>

\* state_now = read_state(directory): load, or _run_locally
AliasFast(p) ==
    /\ rd[p].pc = "fast"
    /\ IF dirs[rd[p].directory].result = "success"
       THEN AReturn(p, IF dirs[furu_dir(dirs)].payload = NoContent
                       THEN RaiseOut ELSE LoadOut(dirs, furu_dir(dirs)))
       ELSE AGoto(p, "run")
    /\ UNCHANGED <<dirs, now, otherVars>>

\* the readers inside the scope of compute_lock on T
LockHolders == {q \in Readers : rd[q].pc \in {"create", "release"}}

\* _run_locally: compute_lock on T.  Without the lock a reader returns when
\* the result of T is success and waits while an attempt is running.
AliasRun(p) ==
    /\ rd[p].pc = "run"
    /\ IF LockHolders # {}
       THEN /\ dirs["T"].result = "success"
            /\ AReturn(p, LoadOut(dirs, furu_dir(dirs)))
            /\ UNCHANGED dirs
       ELSE /\ dirs' = [dirs EXCEPT !["T"].result = "incomplete"]
            /\ AGoto(p, "create")
    /\ UNCHANGED <<now, otherVars>>

\* _create, write_success_marker, finish_attempt_success
AliasCreate(p) ==
    /\ rd[p].pc = "create"
    /\ LET made == [by |-> "T", gen |-> NextGen(dirs, "T")]
       IN  dirs' = [dirs EXCEPT ![furu_dir(dirs)].payload = made,
                                !["T"].made = made, !["T"].marker = TRUE,
                                !["T"].result = "success"]
    /\ AGoto(p, "release")
    /\ UNCHANGED <<now, otherVars>>

\* the scope of compute_lock is left and the result created is returned
AliasRelease(p) ==
    /\ rd[p].pc = "release"
    /\ AReturn(p, [LoadOut(dirs, "T") EXCEPT !.op = "create",
                                             !.made = dirs["T"].made])
    /\ UNCHANGED <<dirs, now, otherVars>>

AliasTick ==
    /\ now < MaxAliasTime
    /\ now' = now + 1
    /\ UNCHANGED <<dirs, rd, otherVars>>

NextAlias ==
    \/ \E policy \in {"alias", "move", "copy"} : Migrate(policy)
    \/ ComputeF
    \/ InvalidateF
    \/ \E p \in Readers : AliasGetState(p)
    \/ \E p \in Readers, valid \in BOOLEAN : AliasExists(p, valid)
    \/ \E p \in Readers : AliasFuruDir(p)
    \/ \E p \in Readers, always_rerun \in BOOLEAN, valid \in BOOLEAN :
          AliasOpen(p, always_rerun, valid)
    \/ \E p \in Readers : AliasTarget(p)
    \/ \E p \in Readers : AliasDetach(p)
    \/ \E p \in Readers : AliasDetachTarget(p)
    \/ \E p \in Readers : AliasMarker(p)
    \/ \E p \in Readers : AliasRead(p)
    \/ \E p \in Readers : AliasFast(p)
    \/ \E p \in Readers : AliasRun(p)
    \/ \E p \in Readers : AliasCreate(p)
    \/ \E p \in Readers : AliasRelease(p)
    \/ AliasTick

\* F and T are fresh directories and no reader of T has begun
InitAlias ==
    /\ InitShared
    /\ alive = {o.pid : o \in Owners}
    /\ InitIdleProg
    /\ InitIdleApi
    /\ InitIdleFile
    /\ InitIdleSubmit
    /\ InitIdleLock
    /\ dirs = [d \in Dirs |-> EmptyDir]
    /\ rd = [p \in Readers |-> IdleReader]

SpecAlias == InitAlias /\ [][NextAlias]_vars

\* ------------------------------------------------------------ claims, Spec

\* C1: at every moment at most one process is inside the compute-lock scope
\* of D (between its successful try_lock and its release_lock), so at most
\* one process executes _create.
C1_ComputeLockExclusive ==
    Cardinality({p \in Procs : InScope(p)}) <= 1

\* C3: at every moment, if state.json has result.status = success then
\* SUCCESS.json exists.
C3_SuccessImpliesMarker ==
    state.result.status = "success" => marker # 0

StickyResults == {"success", "failed", "migrated"}

\* C4: a step that finds result.status in {success, failed, migrated} leaves
\* it out of {absent, incomplete}, unless the step is the state update of
\* _invalidate_cached_success.
C4_TerminalResultSticky ==
    [][(/\ state.result.status \in StickyResults
        /\ state'.result.status \in {"absent", "incomplete"})
       => \E p \in Procs : InvalidateUpdate(p)]_vars

\* process p takes a step of StateManager.reconcile
ReconcileStep(p) ==
    \/ LocReconcile(p)
    \/ LocUnlink(p)
    \/ WaitReconcile(p)
    \/ WaitUnlink(p)

\* .compute.lock is held by a live process other than p, on p's host, that
\* owns the current running attempt
LiveHolder(p) ==
    /\ computeLock # 0
    /\ computeLock # p
    /\ computeLock \in alive
    /\ HostOf(computeLock) = HostOf(p)
    /\ InScope(computeLock)
    /\ state.attempt.status = "running"
    /\ state.attempt.id = attemptId[computeLock]
    /\ state.attempt.owner_pid = computeLock

\* C5: while .compute.lock is held by a live local process that owns the
\* current running attempt, a step of reconcile by another process neither
\* makes that attempt terminal nor removes .compute.lock, whatever the lease.
C5_LiveHolderNotReconciled ==
    [][\A p \in Procs :
          (ReconcileStep(p) /\ LiveHolder(p))
          => /\ state'.attempt.status = "running"
             /\ computeLock' = computeLock]_vars

\* the wait loop of _run_locally, lines 665-688
WaitPcs == {"wait_reconcile", "wait_unlink", "wait_read"}

\* C12: a process in the wait loop of the compute-lock path eventually
\* leaves it: it retries and acquires the lock, returns or raises because
\* the result is success or failed, or raises the wait timeout.
C12_WaiterLeaves ==
    \A p \in Procs : (pc[p] \in WaitPcs) ~> (pc[p] \notin WaitPcs)


\* C14: once result.status of D is success, no load_or_create call starts a
\* new attempt: no step taken from a state whose result is success changes
\* attempt.number (a step of start_attempt_running is the only one that
\* does, and _create follows it).
C14_NoAttemptAfterSuccess ==
    [][state.result.status = "success"
       => state'.attempt.number = state.attempt.number]_vars


\* C15: while result.status of D is failed (huldra has no retry switch, so
\* retrying is never enabled), no load_or_create call starts a new attempt:
\* no step taken from a state whose result is failed and whose attempt is the
\* failed one replaces the attempt record by one with another number.
C15_NoAttemptAfterFailed ==
    [][(state.result.status = "failed" /\ state.attempt.status = "failed")
       => state'.attempt.number = state.attempt.number]_vars


\* the holder has left the scope of _run_locally: it returned, or an
\* exception raised inside the scope went out
LeftPcs == {"created", "raised_error"}

\* C18: the step by which a holder leaves its compute-lock scope, by return
\* or by an exception raised inside it, leaves no .compute.lock behind.
C18_ScopeExitUnlinks ==
    [][\A p \in Procs :
         (pc[p] \in ScopePcs /\ pc'[p] \in LeftPcs) => computeLock' = 0]_vars

\* a holder whose _create raised has recorded the failure and left the
\* scope, and the lock file is gone
C18_Witness ==
    \E p \in Procs :
      /\ pc[p] = "raised_error"
      /\ attemptId[p] # 0
      /\ state.attempt.id = attemptId[p]
      /\ state.attempt.status = "failed"
      /\ computeLock = 0


\* what a message that names the directory and the setting that extends the
\* wait interpolates
NamedFields == {"{directory}", "{config variable}"}

\* C19: a waiter whose wait exceeded max_wait has raised a timeout error
\* whose message names the directory and the configuration variable that
\* extends the wait.
C19_TimeoutNamesDirectory ==
    \A p \in Procs :
      pc[p] = "raised_timeout"
      => NamedFields \subseteq
           {timeout_message[i] : i \in DOMAIN timeout_message}


\* process p, inside its compute-lock scope with its handlers installed,
\* takes signal signum: handle_signal runs to os._exit
HandledPcs == SignalPcs \cap ScopePcs
Signalled(p, signum) ==
    /\ pc'[p] = ExitOf[signum]
    /\ pc[p] \in HandledPcs
    /\ attemptId[p] # 0

\* what the claim states of the step: the attempt of p is recorded preempted
\* with the signal error, the result is incomplete, the exit code is 143
\* for SIGTERM and 130 for SIGINT
Preempted(p, signum) ==
    /\ state'.attempt.id = attemptId[p]
    /\ state'.attempt.status = "preempted"
    /\ state'.attempt.error = ErrorOf[signum]
    /\ state'.result.status = "incomplete"
    /\ pc'[p] = IF signum = SIGTERM THEN "exit_143" ELSE "exit_130"
    /\ p \notin alive'

C33_EscapingErrorRecorded ==
    [][\A p \in Procs :
         pc'[p] # pc[p] =>
            /\ (/\ pc[p] = "finish_failed"
                /\ pc'[p] = "release_err"
                /\ state.attempt.id = attemptId[p]
                /\ state.attempt.status = "running")
               => /\ state'.attempt.status = "failed"
                  /\ state'.attempt.error = "exception"
                  /\ state'.result.status = "failed"
            /\ (pc[p] = "start_running" /\ pc'[p] = "release_err")
               => /\ state'.attempt.status = "failed"
                  /\ state'.attempt.error = "exception"
                  /\ state'.result.status = "failed"
            /\ pc'[p] = "raised_error" => computeLock' = 0]_vars

\* ------------------------------------------------------------ claims, SpecApi

\* C2: start_queued / start_running creates a new attempt only when the
\* attempt recorded in state.json is not queued or running.
C2_NoStartWhileActive ==
    [][(\E status \in ActiveStatuses, backend \in Backends, owner \in Owners :
           ApiStart(status, backend, owner))
       => state.attempt.status \notin ActiveStatuses]_vars

\* C6: the numbers of the attempts started in D strictly increase in the
\* order of the starts, with any other calls in between.
C6_NumbersIncrease ==
    \A i, j \in DOMAIN started : i < j => started[i] < started[j]

\* a finish_* call with attempt_id = id
ApiFinish(id) ==
    \/ ApiFinishSuccess(id)
    \/ ApiFinishFailed(id)
    \/ ApiFinishPreempted(id)

\* C8: a finish_* call whose attempt_id is not the id of the current attempt
\* changes neither attempt nor result.
C8_WrongIdNoOp ==
    [][\A id \in Ids :
          (/\ ApiFinish(id)
           /\ (state.attempt.status = "none" \/ state.attempt.id # id))
          => state' = state]_vars

\* C9: a finish_* call with the id of the current attempt, made after that
\* attempt was finalized, changes neither attempt nor result.
C9_FinishAfterFinalNoOp ==
    [][\A id \in Ids :
          (/\ ApiFinish(id)
           /\ state.attempt.status \in TERMINAL_STATUSES
           /\ state.attempt.id = id)
          => state' = state]_vars

\* C10: reconcile called when SUCCESS.json exists and the current attempt is
\* queued or running yields result success and attempt status success, for
\* every backend, owner liveness, lease and probe verdict.
C10_MarkerPromotes ==
    [][(/\ marker # 0
        /\ state.attempt.status \in ActiveStatuses
        /\ last'.op = "reconcile")
       => /\ state'.result.status = "success"
          /\ state'.attempt.status = "success"]_vars

\* a reconcile has just promoted a local attempt whose owner is dead and
\* whose lease has passed
C10_Witness ==
    /\ last.op = "reconcile"
    /\ last.changed
    /\ marker # 0
    /\ state.attempt.status = "success"
    /\ state.result.status = "success"
    /\ state.attempt.backend = "local"
    /\ state.attempt.owner_host = ThisHost
    /\ state.attempt.owner_pid \notin alive
    /\ now >= state.attempt.lease_expires_at

\* the holder of .compute.lock owns the current running attempt, was killed
\* before finish_*, and its pid is dead or its lease has passed
KilledHolder ==
    /\ computeLock # 0
    /\ state.attempt.status = "running"
    /\ state.attempt.owner_pid = computeLock
    /\ state.attempt.owner_host = ThisHost
    /\ (~pid_alive(state.attempt.owner_pid) \/ lease_expired(state.attempt, now))

\* what the claim C11 promises of the reconcile call
Recovered ==
    /\ state'.attempt.status = "crashed"
    /\ state'.attempt.reason \in {"pid_dead", "lease_expired"}
    /\ state'.result.status = "incomplete"
    /\ computeLock' = 0
    /\ start_attempt(state', nextId, "local", "running", 1, ThisHost, now)
          .attempt.number = state.attempt.number + 1

\* C11 as stated: reconcile on the same host after the lock holder was killed
\* between start_running and finish_*, with its pid dead or its lease passed,
\* leaves the attempt crashed (pid_dead or lease_expired), result incomplete
\* and no .compute.lock, and the next start gets the next attempt number.
C11_CrashRecoveryAsStated ==
    [][(KilledHolder /\ last'.op = "reconcile") => Recovered]_vars

\* C11 amended: the same, for an attempt of backend local and provided
\* SUCCESS.json has not been written.
C11_CrashRecovery ==
    [][(/\ KilledHolder
        /\ state.attempt.backend = "local"
        /\ marker = 0
        /\ last'.op = "reconcile")
       => Recovered]_vars

\* a reconcile has just made the first attempt of a dead holder crashed and
\* removed its .compute.lock
C11_Witness ==
    /\ last.op = "reconcile"
    /\ last.changed
    /\ last.unlocked
    /\ state.attempt.status = "crashed"
    /\ state.attempt.reason = "pid_dead"
    /\ state.attempt.number = 1
    /\ state.attempt.backend = "local"
    /\ state.attempt.owner_pid \notin alive
    /\ now < state.attempt.lease_expires_at
    /\ state.result.status = "incomplete"
    /\ marker = 0
    /\ computeLock = 0

\* C28: when the attempt of D is absent or final, reconcile changes nothing:
\* attempt and result stay as they are and .compute.lock is not removed.
C28_FinalAttemptUntouched ==
    [][(last'.op = "reconcile" /\ state.attempt.status \notin ActiveStatuses)
        => (state' = state /\ computeLock' = computeLock)]_vars

\* C32: reconcile never turns the result into success while SUCCESS.json is
\* missing, and when the probe's verdict is success for a queued or running
\* submitit attempt without SUCCESS.json, the attempt becomes crashed with
\* reason success_without_marker and the result is incomplete.
C32_SuccessNeedsMarker ==
    [][last'.op = "reconcile"
       => /\ (state'.result.status = "success" /\ state.result.status # "success")
               => marker # 0
          /\ \A verdict \in Verdicts :
               (/\ verdict.terminal_status = "success"
                /\ state.attempt.status \in ActiveStatuses
                /\ state.attempt.backend = "submitit"
                /\ marker = 0
                /\ state' = reconcile_mutate(state, FALSE, ThisHost, now,
                                             verdict))
               => /\ state'.attempt.status = "crashed"
                  /\ state'.attempt.reason = "success_without_marker"
                  /\ state'.result.status = "incomplete"]_vars

\* C37: a migration made with conflict policy skip onto a directory whose
\* result is success, or whose attempt is queued or running, changes nothing
\* in that directory: state.json, SUCCESS.json and .compute.lock stay as
\* they are.
C37_SkipLeavesTarget ==
    [][(/\ last'.op = "migrate"
        /\ \/ state.result.status = "success"
           \/ state.attempt.status \in ActiveStatuses)
       => /\ state' = state
          /\ marker' = marker
          /\ computeLock' = computeLock]_vars

\* C38: after every mutation of state.json, a queued or running attempt
\* goes with result.status incomplete.
C38_ActiveMeansIncomplete ==
    state.attempt.status \in ActiveStatuses
       => state.result.status = "incomplete"

\* ------------------------------------------------------------ claims, SpecPlan

\* C13: a reconciliation step makes a queued or running attempt terminal
\* while its lease_expires_at is still in the future only if the owner pid
\* is on this host and dead (no scheduler probe is passed here).
C13_NoHeartbeatAgeTerminal ==
    [][(/\ state.attempt.status \in ActiveStatuses
        /\ now < state.attempt.lease_expires_at
        /\ marker = 0
        /\ last'.op = "reconcile_in_progress"
        /\ state'.attempt.status \in TERMINAL_STATUSES)
       => /\ state.attempt.owner_host = ThisHost
          /\ ~pid_alive(state.attempt.owner_pid)]_vars

\* ------------------------------------------------------------ claims, SpecLock

\* C7: update_state calls on D are mutually exclusive (at most one process
\* is between acquiring and releasing .state.lock) and no update is lost:
\* state.json contains every mutation written.
C7_StateLockSerializes ==
    /\ Cardinality({p \in Procs : InCritical(p)}) <= 1
    /\ stored = committed

\* C16: a call of update_state whose lock acquisition times out (the step
\* from the deadline test to the raise) leaves state.json as it is and leaves
\* the .state.lock file of the other holder in place.
C16_TimeoutKeepsLock ==
    [][\A p \in Procs :
         (lpc[p] = "deadline" /\ lpc'[p] = "idle")
         => /\ stored' = stored
            /\ stateLock' = stateLock]_vars

\* C40: a lock file is removed only by the process that created it, or by a
\* breaker when its creator is dead or the file is older than the stale
\* threshold: no release of a handle and no clean-up after a failed
\* acquisition unlinks a lock file that another, live process holds.
C40_LockRemovedByOwnerOrBreaker ==
    [][\A p \in Procs :
         (lpc'[p] # lpc[p] /\ stateLock.pid # 0 /\ stateLock' = NoLock)
         => \/ stateLock.pid = p
            \/ /\ lpc[p] = "unlink"
               /\ \/ ~pid_alive(stateLock.pid)
                  \/ now - stateLock.mtime > StaleAfter]_vars

\* --------------------------------------------------------- claims, SpecFile

\* C17: while state.json exists and is not a valid state (not valid JSON,
\* unknown schema_version, schema validation failure), read_state and every
\* mutating call raise and leave the file as it is; it is never replaced by a
\* state built from the default.
C17_CorruptStateSurfaces ==
    [][(disk \in CorruptKinds /\ last'.op \in FileOps)
       => /\ raised'
          /\ disk' = disk]_vars

\* -------------------------------------------------------- claims, SpecProbe

\* C21: a reconcile whose probe reports the scheduler state CANCELLED, on a
\* queued or running submitit attempt without SUCCESS.json, leaves the
\* attempt `cancelled` when cancelled_is_preempted is false and `preempted`
\* when it is true, and the result incomplete in both cases.
C21_CancelledVerdict ==
    [][(/\ last'.op \in {"reconcile_cancelled",
                         "reconcile_cancelled_as_preempted"}
        /\ state.attempt.status \in ActiveStatuses
        /\ state.attempt.backend = "submitit"
        /\ marker = 0)
       => /\ state'.attempt.status =
               IF last'.op = "reconcile_cancelled" THEN "cancelled"
               ELSE "preempted"
          /\ state'.result.status = "incomplete"]_vars

\* C30: when reconcile rewrites a queued or running attempt to a terminal
\* variant (failed, cancelled, preempted or crashed), .compute.lock does not
\* exist when reconcile returns.
C30_TerminalizedUnlocks ==
    [][(/\ last'.op \in {"reconcile_probe", "reconcile_cancelled",
                         "reconcile_cancelled_as_preempted"}
        /\ state.attempt.status \in ActiveStatuses
        /\ state'.attempt.status
              \in {"failed", "cancelled", "preempted", "crashed"})
       => computeLock' = 0]_vars

\* C31: when the probe raises during the reconcile of a queued or running
\* submitit attempt, reconcile does not raise and decides by the lease alone:
\* the attempt becomes crashed with reason lease_expired when
\* now >= lease_expires_at and is left as it was otherwise.
C31_ProbeErrorIsNoVerdict ==
    [][last'.op = "reconcile_probe_raises"
       => /\ ~raised'
          /\ state' = reconcile_mutate(state, marker # 0, ThisHost, now,
                                       NoProbe)]_vars

\* -------------------------------------------------------- claims, SpecAlias

\* reader p makes one of the reads get_state, exists (with _validate true)
\* or furu_dir in this step
ReadsThroughT(p) ==
    /\ rd'[p].n = rd[p].n + 1
    /\ rd'[p].out.op \in {"get_state", "exists", "furu_dir"}

\* T has a record of an alias made with policy alias that is not overwritten
AliasRecorded ==
    /\ dirs["T"].record.kind = "alias"
    /\ dirs["T"].record.policy = "alias"
    /\ dirs["T"].record.overwritten_at = -1

\* C22: when T has an alias record to F that is not overwritten and the
\* result of F is success, get_state, exists and furu_dir on T resolve to F:
\* the state and the payload read through T are those of F, and exists() is
\* true.
C22_AliasResolvesToOriginal ==
    [][\A p \in Readers :
          (ReadsThroughT(p) /\ AliasRecorded /\ dirs["F"].result = "success")
          => /\ rd'[p].out.src = "F"
             /\ rd'[p].out.op = "furu_dir"
                   => rd'[p].out.payload = dirs["F"].payload
             /\ rd'[p].out.op # "furu_dir"
                   => /\ rd'[p].out.status = "success"
                      /\ rd'[p].out.made = dirs["F"].made
                      /\ rd'[p].out.ok]_vars

\* reader p makes one of the reads get_state or exists in this step
StateReadThroughT(p) ==
    /\ rd'[p].n = rd[p].n + 1
    /\ rd'[p].out.op \in {"get_state", "exists", "exists_invalid"}

\* load_or_create on T returns to reader p in this step
LoadOrCreateReturns(p) == rd[p].pc # "idle" /\ rd'[p].pc = "idle"

\* T is an alias of F and the result of F was success and no longer is
OriginalCeased ==
    /\ dirs["T"].record.kind = "alias"
    /\ dirs["F"].made.gen >= 1
    /\ dirs["F"].result # "success"

\* both migration records have overwritten_at set
Detached(ds) ==
    /\ ds["T"].record.overwritten_at # -1
    /\ ds["F"].record.overwritten_at # -1

\* C23: once the result of F is no longer success, a read of T (exists,
\* get_state, load_or_create) observes the alias detached, with overwritten_at
\* set on the records of T and of F, or recomputes T; it never reports the
\* success F had before.
C23_CeasedOriginalDetaches ==
    [][\A p \in Readers :
          /\ (StateReadThroughT(p) /\ OriginalCeased)
                => /\ Detached(dirs')
                   /\ ~(rd'[p].out.src = "F" /\ rd'[p].out.status = "success")
          /\ LoadOrCreateReturns(p)
                => ~(/\ rd'[p].out.src = "F"
                     /\ rd'[p].out.payload.gen < rd[p].floor)]_vars

\* C24: a detachment sets overwritten_at on the records of T and of F and
\* appends one migration_overwrite event to each directory; repeating it,
\* in sequence or from concurrent readers, appends no further event and
\* leaves overwritten_at as it was set.
C24_DetachOnce ==
    [][\A d \in Dirs :
          /\ dirs'[d].events <= 1
          /\ dirs'[d].events = 1 /\ dirs'[d].record # NoRecord
                => dirs'[d].record.overwritten_at # -1
          /\ dirs[d].record.overwritten_at # -1
                => dirs'[d].record.overwritten_at
                      = dirs[d].record.overwritten_at]_vars

\* C25: migrate(F, T, policy=move) moves the payload of F into T, writes a
\* record of kind moved on T and one of kind migrated on F, and leaves the
\* result of F migrated.
C25_MoveRecords ==
    [][(dirs["T"].record = NoRecord /\ dirs'["T"].record.policy = "move")
        => /\ dirs'["T"].payload = dirs["F"].payload
           /\ dirs'["F"].payload = NoContent
           /\ dirs'["T"].record.kind = "moved"
           /\ dirs'["F"].record.kind = "migrated"
           /\ dirs'["F"].result = "migrated"]_vars

\* reader p starts an attempt for T or completes it (_create, SUCCESS.json,
\* finish_attempt_success) in this step
RecomputesT(p) ==
    \/ rd[p].pc = "run" /\ rd'[p].pc = "create"
    \/ rd[p].pc = "create" /\ rd'[p].pc = "release"

\* C34: when T carries an alias record, a step that starts or completes an
\* attempt for T writes payload and state in the directory of T only (those
\* of F stay as they are), and the alias is detached by then: overwritten_at
\* is set on the records of T and of F.
C34_RecomputeStaysInT ==
    [][\A p \in Readers :
          (RecomputesT(p) /\ dirs["T"].record.kind = "alias")
          => /\ dirs'["F"].payload = dirs["F"].payload
             /\ dirs'["F"].result = dirs["F"].result
             /\ dirs'["F"].made = dirs["F"].made
             /\ dirs'["F"].marker = dirs["F"].marker
             /\ Detached(dirs')]_vars

\* C39: no step of a read of T (exists, get_state, furu_dir, load_or_create)
\* made while T carries an alias record changes state.json or SUCCESS.json
\* of F; a read may only set overwritten_at on the record of F and append
\* the migration_overwrite event.
C39_ReadsLeaveOriginal ==
    [][(rd' # rd /\ dirs["T"].record.kind = "alias")
       => /\ dirs'["F"].result = dirs["F"].result
          /\ dirs'["F"].marker = dirs["F"].marker]_vars

\* -------------------------------------------------------- claims, SpecWatch

\* C26: when the watcher of a queued attempt learns the job id after the
\* attempt of D was replaced by a new running attempt, the id is recorded in
\* scheduler.job_id of the attempt that is current then.
C26_JobIdFollowsAttempt ==
    [][\A p \in Procs :
          (/\ pc[p] = "watch"
           /\ pc'[p] = "found"
           /\ state.attempt.status = "running"
           /\ state.attempt.id # attemptId[p])
          => /\ state'.attempt.id = state.attempt.id
             /\ state'.attempt.job_id = JobId(p)]_vars

\* ------------------------------------------------------- claims, SpecFields

\* C27: after every mutation of the state, a queued or running attempt has
\* lease_expires_at >= heartbeat_at.
C27_LeaseCoversHeartbeat ==
    state.attempt.status \in ActiveStatuses
        => state.attempt.lease_expires_at >= state.attempt.heartbeat_at

\* ---------------------------------------------------------- claims, SpecRec

\* some call of reconcile has returned and none is under way
RecSettled ==
    /\ \E p \in Procs : pc[p] = "rec_returned"
    /\ \A p \in Procs : pc[p] \in {"off", "rec_returned"}

\* one more reconcile would leave attempt, result and .compute.lock as they are
RecFixpoint ==
    /\ reconcile_mutate(state, marker # 0, ThisHost, now, NoProbe) = state
    /\ reconcile_unlinks(state) => computeLock = 0

BeatApplies(p) ==
    /\ state.attempt.status = "running"
    /\ state.attempt.id = attemptId'[p]

\* C35: heartbeat(D, attempt_id, lease) sets heartbeat_at to now and
\* lease_expires_at to now + lease exactly when the attempt of D is running
\* and has id attempt_id, and returns true exactly then; for a queued,
\* final, replaced or absent attempt it changes no field of the attempt and
\* returns false.
C35_HeartbeatExact ==
    [][last'.op \in {"heartbeat_true", "heartbeat_false"} =>
         \A p \in Procs :
            pc'[p] = "beat" =>
               /\ (last'.op = "heartbeat_true") <=> BeatApplies(p)
               /\ BeatApplies(p)
                     => state'.attempt =
                           [state.attempt EXCEPT
                              !.heartbeat_at = now,
                              !.lease_expires_at = now + Lease]
               /\ ~BeatApplies(p)
                     => /\ state'.attempt = state.attempt
                        /\ state'.result = state.result]_vars

\* a heartbeat was applied after the clock advanced, and one was refused
\* afterwards for an attempt that had become final
C35_Witness ==
    /\ last.op = "heartbeat_false"
    /\ \E p \in Procs : pc[p] = "beat" /\ attemptId[p] = state.attempt.id
    /\ state.attempt.status = "failed"
    /\ state.attempt.heartbeat_at > 0
    /\ state.attempt.lease_expires_at = state.attempt.heartbeat_at + Lease

\* ------------------------------------------------------- claims, SpecSubmit

\* no call of _submit_once has failed: none is in, or has left through, the
\* except branch
NoSubmitFailed ==
    \A p \in Procs : pc[p] \notin {"sub_release_err", "sub_raised"}

\* C36: when any number of processes call _submit_once concurrently on a
\* directory without an active attempt, at most one job is handed to the
\* scheduler and at most one queued attempt is created.
C36_SubmitOnce ==
    NoSubmitFailed => (submitted <= 1 /\ Len(started) <= 1)

====
